---- MODULE Spec2Model ----
(***************************************************************************)
(* A model of the sitemap_generator crate: the six builders (builder.rs),  *)
(* the Validator (validator.rs), the XmlWriter (writer.rs) and the         *)
(* SitemapParser (parser.rs).                                              *)
(*                                                                         *)
(* Representation.                                                          *)
(*  - A Rust String is a record [s, pad]: the characters s (a sequence of  *)
(*    one-character strings) followed by pad copies of PadChar.  The pad   *)
(*    lets a 2049-byte URL or a 50 MiB field be a small value.             *)
(*  - Option<T> is a sequence of length 0 (None) or 1 (Some).              *)
(*  - f32 priorities are integers counting hundredths (80 is 0.8).         *)
(*  - A Vec of entries is a sequence of runs [entry, reps]: reps equal     *)
(*    consecutive entries.  add_url pushes a run of 1.                     *)
(*  - A document (the String the writer yields) is the sequence of XML     *)
(*    events the writer emitted, the url elements kept as runs; the text   *)
(*    of a Text event is the escaped character data as it stands in the    *)
(*    document.                                                            *)
(***************************************************************************)
EXTENDS Integers, Sequences, FiniteSets, TLC

VARIABLES kind, ctor, toggled, validate, entries, ret, file, scan

vars == <<kind, ctor, toggled, validate, entries, ret, file, scan>>

(***************************************************************************)
(* Bounds of the model.                                                    *)
(***************************************************************************)
MaxRuns == 2

MaxEvents == 11

MaxText == 6

(***************************************************************************)
(* validator.rs: the protocol limits.                                      *)
(***************************************************************************)
MAX_URLS == 50000

MAX_SIZE_BYTES == 52428800

MAX_URL_LENGTH == 2048

MAX_NEWS_URLS == 1000

(***************************************************************************)
(* Option<T>.                                                              *)
(***************************************************************************)
None == <<>>

Some(x) == <<x>>

IsSome(o) == Len(o) = 1

Unwrap(o) == o[1]

(***************************************************************************)
(* Strings.                                                                *)
(***************************************************************************)
PadChar == "x"

Str(chars) == [s |-> chars, pad |-> 0]

Padded(chars, n) == [s |-> chars, pad |-> n]

StrLen(x) == Len(x.s) + x.pad

\* The first characters of x: all of s and at most k of the pad.
Materialize(x, k) == x.s \o [i \in 1..(IF x.pad < k THEN x.pad ELSE k) |-> PadChar]

Digits == {"0", "1", "2", "3", "4", "5", "6", "7", "8", "9"}

Letters ==
    {"a", "b", "c", "d", "e", "f", "g", "h", "i", "j", "k", "l", "m",
     "n", "o", "p", "q", "r", "s", "t", "u", "v", "w", "x", "y", "z"}

RECURSIVE Concat(_)
Concat(seqs) == IF seqs = <<>> THEN <<>> ELSE Head(seqs) \o Concat(Tail(seqs))

(***************************************************************************)
(* writer.rs, escape_xml: five str::replace passes, '&' first.             *)
(***************************************************************************)
RECURSIVE Replace(_, _, _)
Replace(chars, c, rep) ==
    IF chars = <<>> THEN <<>>
    ELSE (IF Head(chars) = c THEN rep ELSE <<Head(chars)>>)
         \o Replace(Tail(chars), c, rep)

\* The entity that stands for an XML special character.
XmlEntity(c) ==
    CASE c = "&" -> <<"&", "a", "m", "p", ";">>
      [] c = "<" -> <<"&", "l", "t", ";">>
      [] c = ">" -> <<"&", "g", "t", ";">>
      [] c = "\"" -> <<"&", "q", "u", "o", "t", ";">>
      [] c = "'" -> <<"&", "a", "p", "o", "s", ";">>

escape_xml(text) ==
    [text EXCEPT !.s =
        Replace(Replace(Replace(Replace(Replace(@,
            "&", XmlEntity("&")), "<", XmlEntity("<")), ">", XmlEntity(">")),
            "\"", XmlEntity("\"")), "'", XmlEntity("'"))]

(***************************************************************************)
(* quick_xml: BytesText::new(content) takes unescaped content and escapes  *)
(* it (one pass, each of & < > ' " replaced by its entity); the same       *)
(* escape is applied to the value of an attribute pushed as (&str, &str).  *)
(***************************************************************************)
QxEscapeChar(c) ==
    IF c \in {"&", "<", ">", "\"", "'"} THEN XmlEntity(c) ELSE <<c>>

RECURSIVE QxEscapeChars(_)
QxEscapeChars(chars) ==
    IF chars = <<>> THEN <<>>
    ELSE QxEscapeChar(Head(chars)) \o QxEscapeChars(Tail(chars))

BytesTextNew(content) == [content EXCEPT !.s = QxEscapeChars(@)]

(***************************************************************************)
(* quick_xml: BytesText::unescape, the inverse of one escape pass.  An '&' *)
(* opens an entity reference that runs to the next ';'; a reference that   *)
(* is not terminated or not one of the five predefined names is an error.  *)
(***************************************************************************)
RECURSIVE IndexOf(_, _, _)
IndexOf(chars, c, from) ==
    IF from > Len(chars) THEN 0
    ELSE IF chars[from] = c THEN from
    ELSE IndexOf(chars, c, from + 1)

EntityChar(name) ==
    CASE name = <<"a", "m", "p">> -> <<"&">>
      [] name = <<"l", "t">> -> <<"<">>
      [] name = <<"g", "t">> -> <<">">>
      [] name = <<"q", "u", "o", "t">> -> <<"\"">>
      [] name = <<"a", "p", "o", "s">> -> <<"'">>
      [] OTHER -> <<>>

UnescapeErr == <<"#error">>

RECURSIVE UnescapeChars(_)
UnescapeChars(chars) ==
    IF chars = <<>> THEN <<>>
    ELSE IF Head(chars) # "&"
    THEN LET rest == UnescapeChars(Tail(chars))
         IN  IF rest = UnescapeErr THEN UnescapeErr ELSE <<Head(chars)>> \o rest
    ELSE LET semi == IndexOf(chars, ";", 2)
         IN  IF semi = 0 THEN UnescapeErr
             ELSE LET c == EntityChar(SubSeq(chars, 2, semi - 1))
                      rest == UnescapeChars(SubSeq(chars, semi + 1, Len(chars)))
                  IN  IF c = <<>> \/ rest = UnescapeErr THEN UnescapeErr
                      ELSE c \o rest

(***************************************************************************)
(* Numbers.  f32::to_string prints the shortest decimal that reads back    *)
(* as the same f32: no fraction for a whole number ("1"), else the         *)
(* fraction without trailing zeros ("0.8", "1.01").  v counts hundredths.  *)
(***************************************************************************)
DigitChar(d) ==
    CASE d = 0 -> "0" [] d = 1 -> "1" [] d = 2 -> "2" [] d = 3 -> "3"
      [] d = 4 -> "4" [] d = 5 -> "5" [] d = 6 -> "6" [] d = 7 -> "7"
      [] d = 8 -> "8" [] d = 9 -> "9"

DigitVal(c) ==
    CASE c = "0" -> 0 [] c = "1" -> 1 [] c = "2" -> 2 [] c = "3" -> 3
      [] c = "4" -> 4 [] c = "5" -> 5 [] c = "6" -> 6 [] c = "7" -> 7
      [] c = "8" -> 8 [] c = "9" -> 9

RECURSIVE FormatNat(_)
FormatNat(n) ==
    IF n < 10 THEN <<DigitChar(n)>>
    ELSE FormatNat(n \div 10) \o <<DigitChar(n % 10)>>

FormatF32(v) ==
    LET a == IF v < 0 THEN -v ELSE v
        frac == a % 100
    IN  (IF v < 0 THEN <<"-">> ELSE <<>>)
        \o FormatNat(a \div 100)
        \o (IF frac = 0 THEN <<>>
            ELSE IF frac % 10 = 0 THEN <<".", DigitChar(frac \div 10)>>
            ELSE <<".", DigitChar(frac \div 10), DigitChar(frac % 10)>>)

RECURSIVE ParseNat(_, _)
ParseNat(chars, acc) ==
    IF chars = <<>> THEN acc
    ELSE ParseNat(Tail(chars), 10 * acc + DigitVal(Head(chars)))

AllIn(chars, set) == \A i \in 1..Len(chars) : chars[i] \in set

\* str::parse::<f32> on the decimal texts the model can hold: an optional
\* sign, digits, and an optional fraction of at most two digits.
ParseF32(chars) ==
    LET neg == chars # <<>> /\ Head(chars) = "-"
        body == IF chars # <<>> /\ Head(chars) \in {"-", "+"} THEN Tail(chars) ELSE chars
        dot == IndexOf(body, ".", 1)
        ip == IF dot = 0 THEN body ELSE SubSeq(body, 1, dot - 1)
        fp == IF dot = 0 THEN <<>> ELSE SubSeq(body, dot + 1, Len(body))
        ok == /\ Len(ip) + Len(fp) > 0
              /\ AllIn(ip, Digits) /\ AllIn(fp, Digits)
              /\ Len(fp) <= 2
        fv == IF Len(fp) = 0 THEN 0
              ELSE IF Len(fp) = 1 THEN 10 * DigitVal(fp[1])
              ELSE 10 * DigitVal(fp[1]) + DigitVal(fp[2])
        mag == 100 * ParseNat(ip, 0) + fv
    IN  IF ok THEN [ok |-> TRUE, v |-> IF neg THEN -mag ELSE mag]
        ELSE [ok |-> FALSE, v |-> 0]

(***************************************************************************)
(* validator.rs.  Every check yields Ok or the name of its Error variant.  *)
(***************************************************************************)
Ok == "Ok"

\* url::Url::parse accepts an absolute URL: a scheme (a letter, then
\* letters or digits) followed by ':'.  A string with no scheme is relative
\* and is rejected.
UrlParse(url) ==
    LET colon == IndexOf(url.s, ":", 1)
    IN  /\ colon >= 2
        /\ url.s[1] \in Letters
        /\ AllIn(SubSeq(url.s, 1, colon - 1), Letters \cup Digits)

\* validate_url parsing the URL before it looks at the length.
validate_url_parse_first(url) ==
    IF ~UrlParse(url) THEN "InvalidUrl"
    ELSE IF StrLen(url) > MAX_URL_LENGTH THEN "UrlTooLong"
    ELSE Ok

validate_url(url) ==
    IF StrLen(url) > MAX_URL_LENGTH THEN "UrlTooLong"
    ELSE IF ~UrlParse(url) THEN "InvalidUrl"
    ELSE Ok

validate_priority(priority) ==
    IF ~(0 <= priority /\ priority <= 100) THEN "InvalidPriority" ELSE Ok

RECURSIVE Split(_, _)
Split(chars, sep) ==
    LET i == IndexOf(chars, sep, 1)
    IN  IF i = 0 THEN <<chars>>
        ELSE <<SubSeq(chars, 1, i - 1)>> \o Split(SubSeq(chars, i + 1, Len(chars)), sep)

\* validate_date taking the third part for a day of exactly two characters.
validate_date_day_only(date) ==
    LET parts == Split(Materialize(date, 3), "-")
    IN  IF StrLen(date) < 10 THEN "InvalidDate"
        ELSE IF Len(parts) < 3 THEN "InvalidDate"
        ELSE IF Len(parts[1]) # 4 \/ ~AllIn(parts[1], Digits) THEN "InvalidDate"
        ELSE IF Len(parts[2]) # 2 \/ ~AllIn(parts[2], Digits) THEN "InvalidDate"
        ELSE IF Len(parts[3]) # 2 \/ ~AllIn(parts[3], Digits) THEN "InvalidDate"
        ELSE Ok

\* The pad holds no '-', so all parts but the last lie in date.s, and two pad
\* characters decide what the check reads of the last part.
validate_date(date) ==
    LET parts == Split(Materialize(date, 2), "-")
    IN  IF StrLen(date) < 10 THEN "InvalidDate"
        ELSE IF Len(parts) < 3 THEN "InvalidDate"
        ELSE IF Len(parts[1]) # 4 \/ ~AllIn(parts[1], Digits) THEN "InvalidDate"
        ELSE IF Len(parts[2]) # 2 \/ ~AllIn(parts[2], Digits) THEN "InvalidDate"
        ELSE IF Len(parts[3]) < 2 \/ ~AllIn(SubSeq(parts[3], 1, 2), Digits)
        THEN "InvalidDate"
        ELSE Ok

\* validate_url_count with the comparison written `>=`.
validate_url_count_inclusive(count) == IF count >= MAX_URLS THEN "TooManyUrls" ELSE Ok

validate_url_count(count) == IF count > MAX_URLS THEN "TooManyUrls" ELSE Ok

validate_size(size) == IF size > MAX_SIZE_BYTES THEN "SizeExceeded" ELSE Ok

validate_video_duration(duration) == IF duration > 28800 THEN "Validation" ELSE Ok

validate_video_rating(rating) ==
    IF ~(0 <= rating /\ rating <= 500) THEN "Validation" ELSE Ok

validate_video_title(title) == IF StrLen(title) > 100 THEN "Validation" ELSE Ok

validate_video_description(description) ==
    IF StrLen(description) > 2048 THEN "Validation" ELSE Ok

validate_news_url_count(count) == IF count > MAX_NEWS_URLS THEN "Validation" ELSE Ok

\* validate_language_code without the two Chinese codes.
validate_language_code_letters_only(code) ==
    IF (StrLen(code) = 2 \/ StrLen(code) = 3) /\ AllIn(Materialize(code, 4), Letters)
    THEN Ok
    ELSE "Validation"

validate_language_code(code) ==
    LET len == StrLen(code)
        all == Materialize(code, 4)
    IN  IF (len = 2 \/ len = 3) /\ AllIn(all, Letters) THEN Ok
        ELSE IF code = Str(<<"z", "h", "-", "c", "n">>) \/ code = Str(<<"z", "h", "-", "t", "w">>)
        THEN Ok
        ELSE "Validation"

\* validate_stock_tickers with the comparison written `>=`.
validate_stock_tickers_inclusive(tickers) ==
    LET ticker_list == Split(Materialize(tickers, 1), ",")
    IN  IF Len(ticker_list) >= 5 THEN "Validation" ELSE Ok

validate_stock_tickers(tickers) ==
    LET ticker_list == Split(Materialize(tickers, 1), ",")
    IN  IF Len(ticker_list) > 5 THEN "Validation" ELSE Ok

\* The first failure of a sequence of checks made in order, each returning
\* early with `?`.
RECURSIVE FirstErr(_)
FirstErr(checks) ==
    IF checks = <<>> THEN Ok
    ELSE IF Head(checks) # Ok THEN Head(checks)
    ELSE FirstErr(Tail(checks))

(***************************************************************************)
(* writer.rs.  The writer appends quick_xml events to its buffer; each     *)
(* write_* operator is the sequence of events the function appends.        *)
(***************************************************************************)
SITEMAP_NS == "http://www.sitemaps.org/schemas/sitemap/0.9"

IMAGE_NS == "http://www.google.com/schemas/sitemap-image/1.1"

VIDEO_NS == "http://www.google.com/schemas/sitemap-video/1.1"

NEWS_NS == "http://www.google.com/schemas/sitemap-news/0.9"

\* An attribute value is a literal of the source or an escaped String.
Lit(str) == [lit |-> str]

Attr(k, v) == [k |-> k, v |-> v]

\* push_attribute((key, value)) escapes the value.
UserAttr(k, value) == Attr(k, BytesTextNew(value))

StartEv(name, attrs) == [t |-> "Start", name |-> name, attrs |-> attrs]

TextEv(text) == [t |-> "Text", text |-> text]

EndEv(name) == [t |-> "End", name |-> name]

\* A writer that leaves the XML declaration out.
write_declaration_none == <<>>

write_declaration == <<[t |-> "Decl"]>>

write_text_element(name, text) ==
    <<StartEv(name, <<>>), TextEv(BytesTextNew(escape_xml(text))), EndEv(name)>>

\* `if let Some(ref v) = field { self.write_text_element(name, v)?; }`
write_opt_text(name, field) ==
    IF IsSome(field) THEN write_text_element(name, Unwrap(field)) ELSE <<>>

ChangeFreq == {"Always", "Hourly", "Daily", "Weekly", "Monthly", "Yearly", "Never"}

\* types.rs, ChangeFreq::as_str.
ChangeFreq_as_str(cf) ==
    CASE cf = "Always" -> <<"a", "l", "w", "a", "y", "s">>
      [] cf = "Hourly" -> <<"h", "o", "u", "r", "l", "y">>
      [] cf = "Daily" -> <<"d", "a", "i", "l", "y">>
      [] cf = "Weekly" -> <<"w", "e", "e", "k", "l", "y">>
      [] cf = "Monthly" -> <<"m", "o", "n", "t", "h", "l", "y">>
      [] cf = "Yearly" -> <<"y", "e", "a", "r", "l", "y">>
      [] cf = "Never" -> <<"n", "e", "v", "e", "r">>

write_changefreq(field) ==
    IF IsSome(field)
    THEN write_text_element("changefreq", Str(ChangeFreq_as_str(Unwrap(field))))
    ELSE <<>>

write_priority(field) ==
    IF IsSome(field)
    THEN write_text_element("priority", Str(FormatF32(Unwrap(field))))
    ELSE <<>>

write_url_entry(entry) ==
    <<StartEv("url", <<>>)>>
    \o write_text_element("loc", entry.loc)
    \o write_opt_text("lastmod", entry.lastmod)
    \o write_changefreq(entry.changefreq)
    \o write_priority(entry.priority)
    \o <<EndEv("url")>>

\* write_image_entry choosing the country before the state and the city.
write_image_entry_country_first(image) ==
    <<StartEv("image:image", <<>>)>>
    \o write_text_element("image:loc", image.loc)
    \o write_opt_text("image:caption", image.caption)
    \o (IF IsSome(image.geo_location)
        THEN LET geo == Unwrap(image.geo_location)
             IN  IF IsSome(geo.country)
                 THEN write_text_element("image:geo_location", Unwrap(geo.country))
                 ELSE IF IsSome(geo.state)
                 THEN write_text_element("image:geo_location", Unwrap(geo.state))
                 ELSE IF IsSome(geo.city)
                 THEN write_text_element("image:geo_location", Unwrap(geo.city))
                 ELSE <<>>
        ELSE <<>>)
    \o write_opt_text("image:title", image.title)
    \o write_opt_text("image:license", image.license)
    \o <<EndEv("image:image")>>

write_image_entry(image) ==
    <<StartEv("image:image", <<>>)>>
    \o write_text_element("image:loc", image.loc)
    \o write_opt_text("image:caption", image.caption)
    \o (IF IsSome(image.geo_location)
        THEN LET geo == Unwrap(image.geo_location)
             IN  IF IsSome(geo.city)
                 THEN write_text_element("image:geo_location", Unwrap(geo.city))
                 ELSE IF IsSome(geo.state)
                 THEN write_text_element("image:geo_location", Unwrap(geo.state))
                 ELSE IF IsSome(geo.country)
                 THEN write_text_element("image:geo_location", Unwrap(geo.country))
                 ELSE <<>>
        ELSE <<>>)
    \o write_opt_text("image:title", image.title)
    \o write_opt_text("image:license", image.license)
    \o <<EndEv("image:image")>>

\* `for x in &list { f(x)?; }`
RECURSIVE write_each(_, _)
write_each(f(_), list) ==
    IF list = <<>> THEN <<>> ELSE f(Head(list)) \o write_each(f, Tail(list))

write_url_with_images(entry) ==
    <<StartEv("url", <<>>)>>
    \o write_text_element("loc", entry.url.loc)
    \o write_opt_text("lastmod", entry.url.lastmod)
    \o write_changefreq(entry.url.changefreq)
    \o write_priority(entry.url.priority)
    \o write_each(write_image_entry, entry.images)
    \o <<EndEv("url")>>

YesNo(b) == IF b THEN <<"y", "e", "s">> ELSE <<"n", "o">>

\* types.rs, VideoPlatform::as_str.
VideoPlatform_as_str(p) ==
    CASE p = "Web" -> <<"w", "e", "b">>
      [] p = "Mobile" -> <<"m", "o", "b", "i", "l", "e">>
      [] p = "Tv" -> <<"t", "v">>

\* [String]::join(" ") of strings that carry no pad.
RECURSIVE JoinChars(_)
JoinChars(list) ==
    IF list = <<>> THEN <<>>
    ELSE IF Len(list) = 1 THEN Head(list)
    ELSE Head(list) \o <<" ">> \o JoinChars(Tail(list))

\* A restriction is [tag |-> "Allow" or "Deny", list |-> the Vec].
write_relationship(name, tag, body) ==
    <<StartEv(name, <<Attr("relationship", Lit(IF tag = "Allow" THEN "allow" ELSE "deny"))>>),
      TextEv(BytesTextNew(Str(body))),
      EndEv(name)>>

write_video_price(price) ==
    <<StartEv("video:price",
              <<UserAttr("currency", price.currency)>>
              \o (IF IsSome(price.resolution)
                  THEN <<UserAttr("resolution", Unwrap(price.resolution))>> ELSE <<>>)
              \o (IF IsSome(price.type_)
                  THEN <<UserAttr("type", Unwrap(price.type_))>> ELSE <<>>)),
      TextEv(BytesTextNew(Str(FormatF32(price.amount)))),
      EndEv("video:price")>>

write_video_entry(video) ==
    <<StartEv("video:video", <<>>)>>
    \o write_text_element("video:thumbnail_loc", video.thumbnail_loc)
    \o write_text_element("video:title", video.title)
    \o write_text_element("video:description", video.description)
    \o write_opt_text("video:content_loc", video.content_loc)
    \o write_opt_text("video:player_loc", video.player_loc)
    \o (IF IsSome(video.duration)
        THEN write_text_element("video:duration", Str(FormatNat(Unwrap(video.duration))))
        ELSE <<>>)
    \o write_opt_text("video:publication_date", video.publication_date)
    \o write_opt_text("video:expiration_date", video.expiration_date)
    \o (IF IsSome(video.rating)
        THEN write_text_element("video:rating", Str(FormatF32(Unwrap(video.rating))))
        ELSE <<>>)
    \o (IF IsSome(video.view_count)
        THEN write_text_element("video:view_count", Str(FormatNat(Unwrap(video.view_count))))
        ELSE <<>>)
    \o (IF IsSome(video.family_friendly)
        THEN write_text_element("video:family_friendly", Str(YesNo(Unwrap(video.family_friendly))))
        ELSE <<>>)
    \o write_each(LAMBDA tag : write_text_element("video:tag", tag), video.tags)
    \o write_opt_text("video:category", video.category)
    \o (IF IsSome(video.restriction)
        THEN LET r == Unwrap(video.restriction)
             IN  write_relationship("video:restriction", r.tag,
                                    JoinChars([i \in 1..Len(r.list) |-> r.list[i].s]))
        ELSE <<>>)
    \o write_opt_text("video:gallery_loc", video.gallery_loc)
    \o (IF IsSome(video.platform)
        THEN LET r == Unwrap(video.platform)
             IN  write_relationship("video:platform", r.tag,
                                    JoinChars([i \in 1..Len(r.list) |->
                                                   VideoPlatform_as_str(r.list[i])]))
        ELSE <<>>)
    \o write_each(write_video_price, video.prices)
    \o (IF IsSome(video.requires_subscription)
        THEN write_text_element("video:requires_subscription",
                                Str(YesNo(Unwrap(video.requires_subscription) = "Yes")))
        ELSE <<>>)
    \o (IF IsSome(video.uploader)
        THEN LET uploader == Unwrap(video.uploader)
             IN  IF IsSome(uploader.info_url)
                 THEN <<StartEv("video:uploader",
                                <<UserAttr("info", Unwrap(uploader.info_url))>>),
                        TextEv(BytesTextNew(uploader.name)),
                        EndEv("video:uploader")>>
                 ELSE write_text_element("video:uploader", uploader.name)
        ELSE <<>>)
    \o (IF IsSome(video.live)
        THEN write_text_element("video:live", Str(YesNo(Unwrap(video.live) = "Yes")))
        ELSE <<>>)
    \o <<EndEv("video:video")>>

write_url_with_videos(entry) ==
    <<StartEv("url", <<>>)>>
    \o write_text_element("loc", entry.url.loc)
    \o write_opt_text("lastmod", entry.url.lastmod)
    \o write_each(write_video_entry, entry.videos)
    \o <<EndEv("url")>>

\* The news:news block, written inline by write_news_sitemap and again by
\* write_combined_sitemap.
write_news_block(news) ==
    <<StartEv("news:news", <<>>), StartEv("news:publication", <<>>)>>
    \o write_text_element("news:name", news.publication.name)
    \o write_text_element("news:language", news.publication.language)
    \o <<EndEv("news:publication")>>
    \o write_text_element("news:publication_date", news.publication_date)
    \o write_text_element("news:title", news.title)
    \o write_opt_text("news:keywords", news.keywords)
    \o write_opt_text("news:stock_tickers", news.stock_tickers)
    \o <<EndEv("news:news")>>

write_url_with_news(entry) ==
    <<StartEv("url", <<>>)>>
    \o write_text_element("loc", entry.url.loc)
    \o write_news_block(entry.news)
    \o <<EndEv("url")>>

write_url_with_extensions(entry) ==
    <<StartEv("url", <<>>)>>
    \o write_text_element("loc", entry.url.loc)
    \o write_opt_text("lastmod", entry.url.lastmod)
    \o write_changefreq(entry.url.changefreq)
    \o write_priority(entry.url.priority)
    \o write_each(write_image_entry, entry.images)
    \o write_each(write_video_entry, entry.videos)
    \o (IF IsSome(entry.news) THEN write_news_block(Unwrap(entry.news)) ELSE <<>>)
    \o <<EndEv("url")>>

write_index_entry(entry) ==
    <<StartEv("sitemap", <<>>)>>
    \o write_text_element("loc", entry.loc)
    \o write_opt_text("lastmod", entry.lastmod)
    \o <<EndEv("sitemap")>>

\* The document: the declaration and the root's start tag, one run of
\* events per run of entries, and the root's end tag.
Doc(root, attrs, f(_), es) ==
    [head |-> write_declaration \o <<StartEv(root, attrs)>>,
     body |-> [i \in 1..Len(es) |-> [events |-> f(es[i].entry), reps |-> es[i].reps]],
     tail |-> <<EndEv(root)>>]

AnyEntry(es, P(_)) == \E i \in 1..Len(es) : P(es[i].entry)

write_sitemap(es) ==
    Doc("urlset", <<Attr("xmlns", Lit(SITEMAP_NS))>>, write_url_entry, es)

\* write_image_sitemap with the xmlns:image attribute left off the root.
write_image_sitemap_no_ns(es) ==
    Doc("urlset", <<Attr("xmlns", Lit(SITEMAP_NS))>>, write_url_with_images, es)

write_image_sitemap(es) ==
    Doc("urlset",
        <<Attr("xmlns", Lit(SITEMAP_NS)), Attr("xmlns:image", Lit(IMAGE_NS))>>,
        write_url_with_images, es)

write_video_sitemap(es) ==
    Doc("urlset",
        <<Attr("xmlns", Lit(SITEMAP_NS)), Attr("xmlns:video", Lit(VIDEO_NS))>>,
        write_url_with_videos, es)

write_news_sitemap(es) ==
    Doc("urlset",
        <<Attr("xmlns", Lit(SITEMAP_NS)), Attr("xmlns:news", Lit(NEWS_NS))>>,
        write_url_with_news, es)

HasImages(e) == e.images # <<>>

HasVideos(e) == e.videos # <<>>

HasNews(e) == IsSome(e.news)

write_combined_sitemap(es) ==
    LET needs_image == AnyEntry(es, HasImages)
        needs_video == AnyEntry(es, HasVideos)
        needs_news == AnyEntry(es, HasNews)
    IN  Doc("urlset",
            <<Attr("xmlns", Lit(SITEMAP_NS))>>
            \o (IF needs_image THEN <<Attr("xmlns:image", Lit(IMAGE_NS))>> ELSE <<>>)
            \o (IF needs_video THEN <<Attr("xmlns:video", Lit(VIDEO_NS))>> ELSE <<>>)
            \o (IF needs_news THEN <<Attr("xmlns:news", Lit(NEWS_NS))>> ELSE <<>>),
            write_url_with_extensions, es)

write_sitemap_index(es) ==
    Doc("sitemapindex", <<Attr("xmlns", Lit(SITEMAP_NS))>>, write_index_entry, es)

(***************************************************************************)
(* writer.rs, into_string, and String::len: the bytes of the document.     *)
(* The writer indents by two spaces: a start tag, and an end tag that does *)
(* not follow text, begin on a new line.                                   *)
(***************************************************************************)
LitLen ==
    ("urlset" :> 6) @@
    ("sitemapindex" :> 12) @@
    ("url" :> 3) @@
    ("sitemap" :> 7) @@
    ("loc" :> 3) @@
    ("lastmod" :> 7) @@
    ("changefreq" :> 10) @@
    ("priority" :> 8) @@
    ("image:image" :> 11) @@
    ("image:loc" :> 9) @@
    ("image:caption" :> 13) @@
    ("image:geo_location" :> 18) @@
    ("image:title" :> 11) @@
    ("image:license" :> 13) @@
    ("video:video" :> 11) @@
    ("video:thumbnail_loc" :> 19) @@
    ("video:title" :> 11) @@
    ("video:description" :> 17) @@
    ("video:content_loc" :> 17) @@
    ("video:player_loc" :> 16) @@
    ("video:duration" :> 14) @@
    ("video:publication_date" :> 22) @@
    ("video:expiration_date" :> 21) @@
    ("video:rating" :> 12) @@
    ("video:view_count" :> 16) @@
    ("video:family_friendly" :> 21) @@
    ("video:tag" :> 9) @@
    ("video:category" :> 14) @@
    ("video:restriction" :> 17) @@
    ("video:gallery_loc" :> 17) @@
    ("video:platform" :> 14) @@
    ("video:price" :> 11) @@
    ("video:requires_subscription" :> 27) @@
    ("video:uploader" :> 14) @@
    ("video:live" :> 10) @@
    ("news:news" :> 9) @@
    ("news:publication" :> 16) @@
    ("news:name" :> 9) @@
    ("news:language" :> 13) @@
    ("news:publication_date" :> 21) @@
    ("news:title" :> 10) @@
    ("news:keywords" :> 13) @@
    ("news:stock_tickers" :> 18) @@
    ("xmlns" :> 5) @@
    ("xmlns:image" :> 11) @@
    ("xmlns:video" :> 11) @@
    ("xmlns:news" :> 10) @@
    ("relationship" :> 12) @@
    ("currency" :> 8) @@
    ("resolution" :> 10) @@
    ("type" :> 4) @@
    ("info" :> 4) @@
    ("allow" :> 5) @@
    ("deny" :> 4) @@
    ("http://www.sitemaps.org/schemas/sitemap/0.9" :> 43) @@
    ("http://www.google.com/schemas/sitemap-image/1.1" :> 47) @@
    ("http://www.google.com/schemas/sitemap-video/1.1" :> 47) @@
    ("http://www.google.com/schemas/sitemap-news/0.9" :> 46)

AttrLen(a) ==
    LitLen[a.k] + 4
    + (IF "lit" \in DOMAIN a.v THEN LitLen[a.v.lit] ELSE StrLen(a.v))

RECURSIVE AttrsLen(_)
AttrsLen(attrs) == IF attrs = <<>> THEN 0 ELSE AttrLen(Head(attrs)) + AttrsLen(Tail(attrs))

\* <?xml version="1.0" encoding="UTF-8"?>
DeclLen == 38

\* The sum of f over lo..hi, halving the range.
RECURSIVE SumRange(_, _, _)
SumRange(f(_), lo, hi) ==
    IF lo > hi THEN 0
    ELSE IF lo = hi THEN f(lo)
    ELSE SumRange(f, lo, (lo + hi) \div 2) + SumRange(f, (lo + hi) \div 2 + 1, hi)

\* The bytes event i of evs adds.  depth0 is the nesting depth before evs[1]
\* and brk0 whether a tag at evs[1] would begin on a new line.
EventLen(evs, i, depth0, brk0) ==
    LET e == evs[i]
        brk == IF i = 1 THEN brk0 ELSE evs[i - 1].t # "Text"
        depth == depth0 + Cardinality({j \in 1..(i - 1) : evs[j].t = "Start"})
                        - Cardinality({j \in 1..(i - 1) : evs[j].t = "End"})
    IN  CASE e.t = "Decl" -> DeclLen
          [] e.t = "Start" ->
               (IF brk THEN 1 + 2 * depth ELSE 0)
               + 2 + LitLen[e.name] + AttrsLen(e.attrs)
          [] e.t = "Text" -> StrLen(e.text)
          [] e.t = "End" ->
               (IF brk THEN 1 + 2 * (depth - 1) ELSE 0) + 3 + LitLen[e.name]

EventsLen(evs, depth0, brk0) ==
    SumRange(LAMBDA i : EventLen(evs, i, depth0, brk0), 1, Len(evs))

RECURSIVE RunsLen(_)
RunsLen(body) ==
    IF body = <<>> THEN 0
    ELSE Head(body).reps * EventsLen(Head(body).events, 1, TRUE) + RunsLen(Tail(body))

DocLen(doc) ==
    EventsLen(doc.head, 0, FALSE) + RunsLen(doc.body) + EventsLen(doc.tail, 1, TRUE)

(***************************************************************************)
(* builder.rs: validate_entries and build of the six builders.             *)
(***************************************************************************)
Run(e, n) == [entry |-> e, reps |-> n]

\* Vec::len of a sequence of runs.
RECURSIVE EntriesLen(_)
EntriesLen(es) == IF es = <<>> THEN 0 ELSE Head(es).reps + EntriesLen(Tail(es))

\* Vec::is_empty of a sequence of runs (a run holds at least one entry).
is_empty(es) == es = <<>>

\* `if let Some(v) = field { check(v)?; }`
CheckOpt(field, check(_)) == IF IsSome(field) THEN <<check(Unwrap(field))>> ELSE <<>>

\* `for entry in &self.entries { ... }`: the checks of every entry, in order.
\* The entries of a run are equal, so the first of them decides for the run.
RECURSIVE ForEach(_, _)
ForEach(checks(_), list) ==
    IF list = <<>> THEN <<>> ELSE checks(Head(list)) \o ForEach(checks, Tail(list))

Entries(es) == [i \in 1..Len(es) |-> es[i].entry]

OkRes(xml) == [ok |-> TRUE, err |-> Ok, doc |-> xml]

NoDoc == [head |-> <<>>, body |-> <<>>, tail |-> <<>>]

ErrRes(e) == [ok |-> FALSE, err |-> e, doc |-> NoDoc]

\* The size check of build made regardless of the validate flag.
BuildSizeCheck_always(flag, xml) == validate_size(DocLen(xml))

\* The body shared by the six build functions: validate_entries()?, the
\* writer, then `if self.validate { Validator::validate_size(xml.len())?; }`.
BuildSizeCheck(flag, xml) == IF flag THEN validate_size(DocLen(xml)) ELSE Ok

BuildFrom(flag, checked, xml) ==
    IF checked # Ok THEN ErrRes(checked)
    ELSE IF BuildSizeCheck(flag, xml) # Ok THEN ErrRes(BuildSizeCheck(flag, xml))
    ELSE OkRes(xml)

\* SitemapBuilder
SitemapChecks(entry) ==
    <<validate_url(entry.loc)>>
    \o CheckOpt(entry.lastmod, validate_date)
    \o CheckOpt(entry.priority, validate_priority)

\* validate_entries without its `if !self.validate { return Ok(()) }`.
SitemapBuilder_validate_entries_always(es, flag) ==
    FirstErr(<<validate_url_count(EntriesLen(es))>> \o ForEach(SitemapChecks, Entries(es)))

SitemapBuilder_validate_entries(es, flag) ==
    IF ~flag THEN Ok
    ELSE FirstErr(<<validate_url_count(EntriesLen(es))>> \o ForEach(SitemapChecks, Entries(es)))

\* ImageSitemapBuilder
ImageChecks(image) == <<validate_url(image.loc)>>

ImageSitemapChecks(entry) ==
    <<validate_url(entry.url.loc)>>
    \o CheckOpt(entry.url.lastmod, validate_date)
    \o CheckOpt(entry.url.priority, validate_priority)
    \o ForEach(ImageChecks, entry.images)

ImageSitemapBuilder_validate_entries(es, flag) ==
    IF ~flag THEN Ok
    ELSE FirstErr(<<validate_url_count(EntriesLen(es))>>
                  \o ForEach(ImageSitemapChecks, Entries(es)))

\* VideoSitemapBuilder
VideoChecks(video) ==
    <<validate_url(video.thumbnail_loc),
      validate_video_title(video.title),
      validate_video_description(video.description)>>
    \o CheckOpt(video.content_loc, validate_url)
    \o CheckOpt(video.player_loc, validate_url)
    \o CheckOpt(video.duration, validate_video_duration)
    \o CheckOpt(video.rating, validate_video_rating)
    \o CheckOpt(video.publication_date, validate_date)
    \o CheckOpt(video.expiration_date, validate_date)

VideoSitemapChecks(entry) ==
    <<validate_url(entry.url.loc)>>
    \o CheckOpt(entry.url.lastmod, validate_date)
    \o ForEach(VideoChecks, entry.videos)

VideoSitemapBuilder_validate_entries(es, flag) ==
    IF ~flag THEN Ok
    ELSE FirstErr(<<validate_url_count(EntriesLen(es))>>
                  \o ForEach(VideoSitemapChecks, Entries(es)))

\* SitemapIndexBuilder: no count check.
IndexChecks(entry) ==
    <<validate_url(entry.loc)>> \o CheckOpt(entry.lastmod, validate_date)

SitemapIndexBuilder_validate_entries(es, flag) ==
    IF ~flag THEN Ok ELSE FirstErr(ForEach(IndexChecks, Entries(es)))

\* NewsSitemapBuilder
NewsChecks(news) ==
    <<validate_date(news.publication_date),
      validate_language_code(news.publication.language)>>
    \o CheckOpt(news.stock_tickers, validate_stock_tickers)

NewsSitemapChecks(entry) == <<validate_url(entry.url.loc)>> \o NewsChecks(entry.news)

NewsSitemapBuilder_validate_entries(es, flag) ==
    IF ~flag THEN Ok
    ELSE FirstErr(<<validate_news_url_count(EntriesLen(es))>>
                  \o ForEach(NewsSitemapChecks, Entries(es)))

\* CombinedSitemapBuilder
CombinedVideoChecks(video) ==
    <<validate_video_title(video.title),
      validate_video_description(video.description)>>
    \o CheckOpt(video.duration, validate_video_duration)
    \o CheckOpt(video.rating, validate_video_rating)

CombinedChecks(entry) ==
    <<validate_url(entry.url.loc)>>
    \o CheckOpt(entry.url.lastmod, validate_date)
    \o CheckOpt(entry.url.priority, validate_priority)
    \o ForEach(CombinedVideoChecks, entry.videos)
    \o (IF IsSome(entry.news) THEN NewsChecks(Unwrap(entry.news)) ELSE <<>>)

\* The count check with has_news read from the first entry only.
CombinedCountCheck_first(es) ==
    LET has_news == es # <<>> /\ HasNews(es[1].entry)
    IN  IF has_news THEN validate_news_url_count(EntriesLen(es))
        ELSE validate_url_count(EntriesLen(es))

CombinedCountCheck(es) ==
    LET has_news == AnyEntry(es, HasNews)
    IN  IF has_news THEN validate_news_url_count(EntriesLen(es))
        ELSE validate_url_count(EntriesLen(es))

CombinedSitemapBuilder_validate_entries(es, flag) ==
    IF ~flag THEN Ok
    ELSE FirstErr(<<CombinedCountCheck(es)>> \o ForEach(CombinedChecks, Entries(es)))

Kinds == {"Sitemap", "Image", "Video", "Index", "News", "Combined"}

build(k, es, flag) ==
    CASE k = "Sitemap" ->
           BuildFrom(flag, SitemapBuilder_validate_entries(es, flag), write_sitemap(es))
      [] k = "Image" ->
           BuildFrom(flag, ImageSitemapBuilder_validate_entries(es, flag), write_image_sitemap(es))
      [] k = "Video" ->
           BuildFrom(flag, VideoSitemapBuilder_validate_entries(es, flag), write_video_sitemap(es))
      [] k = "Index" ->
           BuildFrom(flag, SitemapIndexBuilder_validate_entries(es, flag), write_sitemap_index(es))
      [] k = "News" ->
           BuildFrom(flag, NewsSitemapBuilder_validate_entries(es, flag), write_news_sitemap(es))
      [] k = "Combined" ->
           BuildFrom(flag, CombinedSitemapBuilder_validate_entries(es, flag), write_combined_sitemap(es))

\* The constructors.  new and with_capacity set validate: true.  Default is
\* derived for the Sitemap, Image, Video and Index builders (bool::default()
\* is false) and is Self::new() for the News and Combined builders.
Ctors == {"new", "with_capacity", "default"}

DerivedDefault == FALSE

CtorValidate(k, c) ==
    IF c = "default" /\ k \in {"Sitemap", "Image", "Video", "Index"}
    THEN DerivedDefault
    ELSE TRUE

(***************************************************************************)
(* parser.rs.  The quick_xml Reader turns the document back into events;   *)
(* with trim_text(true) it trims every Text event and yields none for text *)
(* that is empty after the trim.  It ends with Eof.                        *)
(***************************************************************************)
RECURSIVE TrimStart(_)
TrimStart(chars) ==
    IF chars # <<>> /\ Head(chars) = " " THEN TrimStart(Tail(chars)) ELSE chars

RECURSIVE TrimEnd(_)
TrimEnd(chars) ==
    IF chars # <<>> /\ chars[Len(chars)] = " "
    THEN TrimEnd(SubSeq(chars, 1, Len(chars) - 1))
    ELSE chars

Trim(x) ==
    IF x.pad > 0 THEN [x EXCEPT !.s = TrimStart(@)]
    ELSE [x EXCEPT !.s = TrimEnd(TrimStart(@))]

ReadEvents(evs) ==
    SelectSeq([i \in 1..Len(evs) |->
                  IF evs[i].t = "Text" THEN TextEv(Trim(evs[i].text)) ELSE evs[i]],
              LAMBDA e : e.t # "Text" \/ StrLen(e.text) > 0)

RECURSIVE Repeat(_, _)
Repeat(evs, n) == IF n = 0 THEN <<>> ELSE evs \o Repeat(evs, n - 1)

RECURSIVE ExpandRuns(_)
ExpandRuns(body) ==
    IF body = <<>> THEN <<>>
    ELSE Repeat(Head(body).events, Head(body).reps) \o ExpandRuns(Tail(body))

ReaderEvents(doc) ==
    ReadEvents(doc.head \o ExpandRuns(doc.body) \o doc.tail) \o <<[t |-> "Eof"]>>

\* BytesText::unescape on a Text event: whether it fails, and the String.
UnescapeFails(text) == UnescapeChars(text.s) = UnescapeErr

Unescape(text) == [s |-> UnescapeChars(text.s), pad |-> text.pad]

\* Locals that hold an entry in progress before any event is read.
ParseInit_open ==
    [entries |-> <<>>, current_url |-> Some([loc |-> Str(<<>>), lastmod |-> None]),
     current_element |-> "", done |-> FALSE, err |-> Ok]

\* The locals of parse_reader before the loop.
ParseInit ==
    [entries |-> <<>>, current_url |-> None, current_element |-> "",
     done |-> FALSE, err |-> Ok]

ParseChangeFreq(text) ==
    IF \E cf \in ChangeFreq : text = Str(ChangeFreq_as_str(cf))
    THEN Some(CHOOSE cf \in ChangeFreq : text = Str(ChangeFreq_as_str(cf)))
    ELSE None

\* ParseUrlText refusing a priority outside [0.0, 1.0].
ParseUrlText_checked(st, text) ==
    LET url == Unwrap(st.current_url)
        p == ParseF32(Materialize(text, 1))
    IN  CASE st.current_element = "loc" ->
               [st EXCEPT !.current_url = Some([url EXCEPT !.loc = text])]
          [] st.current_element = "lastmod" ->
               [st EXCEPT !.current_url = Some([url EXCEPT !.lastmod = Some(text)])]
          [] st.current_element = "changefreq" ->
               IF IsSome(ParseChangeFreq(text))
               THEN [st EXCEPT !.current_url =
                        Some([url EXCEPT !.changefreq = ParseChangeFreq(text)])]
               ELSE [st EXCEPT !.err = "InvalidChangeFreq"]
          [] st.current_element = "priority" ->
               IF p.ok /\ validate_priority(p.v) = Ok
               THEN [st EXCEPT !.current_url = Some([url EXCEPT !.priority = Some(p.v)])]
               ELSE [st EXCEPT !.err = IF p.ok THEN "InvalidPriority" ELSE "Validation"]
          [] OTHER -> st

\* The Text arm of parse_reader, with a url in progress.
ParseUrlText(st, text) ==
    LET url == Unwrap(st.current_url)
    IN  CASE st.current_element = "loc" ->
               [st EXCEPT !.current_url = Some([url EXCEPT !.loc = text])]
          [] st.current_element = "lastmod" ->
               [st EXCEPT !.current_url = Some([url EXCEPT !.lastmod = Some(text)])]
          [] st.current_element = "changefreq" ->
               IF IsSome(ParseChangeFreq(text))
               THEN [st EXCEPT !.current_url =
                        Some([url EXCEPT !.changefreq = ParseChangeFreq(text)])]
               ELSE [st EXCEPT !.err = "InvalidChangeFreq"]
          [] st.current_element = "priority" ->
               LET p == ParseF32(Materialize(text, 1))
               IN  IF p.ok
                   THEN [st EXCEPT !.current_url = Some([url EXCEPT !.priority = Some(p.v)])]
                   ELSE [st EXCEPT !.err = "Validation"]
          [] OTHER -> st

\* One turn of the loop of parse_reader on the event ev.
ParseStep(st, ev) ==
    CASE ev.t = "Start" ->
           [st EXCEPT !.current_url = IF ev.name = "url"
                                    THEN Some([loc |-> Str(<<>>), lastmod |-> None,
                                               changefreq |-> None, priority |-> None])
                                    ELSE @,
                      !.current_element = ev.name]
      [] ev.t = "Text" ->
           IF UnescapeFails(ev.text) THEN [st EXCEPT !.err = "Xml"]
           ELSE IF IsSome(st.current_url) THEN ParseUrlText(st, Unescape(ev.text))
           ELSE st
      [] ev.t = "End" ->
           IF ev.name = "url" /\ IsSome(st.current_url)
           THEN [st EXCEPT !.entries = Append(@, Unwrap(st.current_url)),
                           !.current_url = None]
           ELSE st
      [] ev.t = "Eof" -> [st EXCEPT !.done = TRUE]
      [] ev.t = "Error" -> [st EXCEPT !.err = "Xml"]
      [] OTHER -> st

\* One turn of the loop of parse_index_reader; current_url holds
\* current_sitemap.
ParseIndexStep(st, ev) ==
    CASE ev.t = "Start" ->
           [st EXCEPT !.current_url = IF ev.name = "sitemap"
                                    THEN Some([loc |-> Str(<<>>), lastmod |-> None])
                                    ELSE @,
                      !.current_element = ev.name]
      [] ev.t = "Text" ->
           IF UnescapeFails(ev.text) THEN [st EXCEPT !.err = "Xml"]
           ELSE IF IsSome(st.current_url)
           THEN LET sitemap == Unwrap(st.current_url)
                    text == Unescape(ev.text)
                IN  CASE st.current_element = "loc" ->
                           [st EXCEPT !.current_url = Some([sitemap EXCEPT !.loc = text])]
                      [] st.current_element = "lastmod" ->
                           [st EXCEPT !.current_url =
                               Some([sitemap EXCEPT !.lastmod = Some(text)])]
                      [] OTHER -> st
           ELSE st
      [] ev.t = "End" ->
           IF ev.name = "sitemap" /\ IsSome(st.current_url)
           THEN [st EXCEPT !.entries = Append(@, Unwrap(st.current_url)),
                           !.current_url = None]
           ELSE st
      [] ev.t = "Eof" -> [st EXCEPT !.done = TRUE]
      [] ev.t = "Error" -> [st EXCEPT !.err = "Xml"]
      [] OTHER -> st

\* The loop over events lo..hi (the range is halved): it returns at the
\* first error and breaks at Eof.
RECURSIVE ParseLoop(_, _, _, _, _)
ParseLoop(step(_, _), st, evs, lo, hi) ==
    IF lo > hi THEN st
    ELSE IF lo = hi THEN (IF st.done \/ st.err # Ok THEN st ELSE step(st, evs[lo]))
    ELSE LET mid == ParseLoop(step, st, evs, lo, (lo + hi) \div 2)
         IN  IF mid.done \/ mid.err # Ok THEN mid
             ELSE ParseLoop(step, mid, evs, (lo + hi) \div 2 + 1, hi)

ParseAll(step(_, _), evs) == ParseLoop(step, ParseInit, evs, 1, Len(evs))

\* A result that hands back, with the error, the entries completed before it.
ParseResult_partial(st) ==
    IF st.err # Ok THEN [ok |-> FALSE, err |-> st.err, entries |-> st.entries]
    ELSE [ok |-> TRUE, err |-> Ok, entries |-> st.entries]

ParseResult(st) ==
    IF st.err # Ok THEN [ok |-> FALSE, err |-> st.err, entries |-> <<>>]
    ELSE [ok |-> TRUE, err |-> Ok, entries |-> st.entries]

parse_string(xml) == ParseResult(ParseAll(ParseStep, ReaderEvents(xml)))

parse_index_string(xml) ==
    ParseResult(ParseAll(ParseIndexStep, ReaderEvents(xml)))

(***************************************************************************)
(* types.rs: the entry records, and the values the model feeds in.         *)
(***************************************************************************)
UrlEntry(loc, lastmod, changefreq, priority) ==
    [loc |-> loc, lastmod |-> lastmod, changefreq |-> changefreq, priority |-> priority]

UrlEntry_new(loc) == UrlEntry(loc, None, None, None)

GeoLocation(city, state, country) == [city |-> city, state |-> state, country |-> country]

ImageEntry_new(loc) ==
    [loc |-> loc, caption |-> None, geo_location |-> None, title |-> None, license |-> None]

UrlWithImages(url, images) == [url |-> url, images |-> images]

VideoEntry_new(thumbnail_loc, title, description) ==
    [thumbnail_loc |-> thumbnail_loc, title |-> title, description |-> description,
     content_loc |-> None, player_loc |-> None, duration |-> None,
     publication_date |-> None, expiration_date |-> None, rating |-> None,
     view_count |-> None, family_friendly |-> None, tags |-> <<>>, category |-> None,
     restriction |-> None, gallery_loc |-> None, platform |-> None, prices |-> <<>>,
     requires_subscription |-> None, uploader |-> None, live |-> None]

VideoPrice_new(currency, amount) ==
    [currency |-> currency, amount |-> amount, resolution |-> None, type_ |-> None]

VideoUploader_new(name) == [name |-> name, info_url |-> None]

UrlWithVideos(url, videos) == [url |-> url, videos |-> videos]

NewsPublication_new(name, language) == [name |-> name, language |-> language]

NewsEntry_new(publication, publication_date, title) ==
    [publication |-> publication, publication_date |-> publication_date, title |-> title,
     keywords |-> None, stock_tickers |-> None]

UrlWithNews(url, news) == [url |-> url, news |-> news]

UrlWithExtensions(url, images, videos, news) ==
    [url |-> url, images |-> images, videos |-> videos, news |-> news]

SitemapIndexEntry(loc, lastmod) == [loc |-> loc, lastmod |-> lastmod]

\* Strings
\* The strings fed in.  HugeDate and HugeText alone make a document exceed
\* MAX_SIZE_BYTES.
Txt ==
    LET date == <<"2", "0", "2", "5", "-", "1", "1", "-", "0", "1">>
    IN  [UrlA |-> Str(<<"h", ":", "a">>),
         UrlB |-> Str(<<"h", ":", "b">>),
         UrlAmp |-> Str(<<"h", ":", "a", "&", "b">>),
         NotUrl |-> Str(<<"n", "o", " ", "u">>),
         NotUrlLt |-> Str(<<"a", "<", "b">>),
         DateA |-> Str(date),
         NotDate |-> Str(<<"n", "o", "w">>),
         HugeDate |-> Padded(date, MAX_SIZE_BYTES),
         HugeText |-> Padded(<<>>, MAX_SIZE_BYTES),
         TextT |-> Str(<<"t">>),
         TextQ |-> Str(<<"a", "\"", "b">>),
         LangEn |-> Str(<<"e", "n">>),
         LangBad |-> Str(<<"E", "N">>),
         MaxUrl |-> Padded(<<"h", ":">>, MAX_URL_LENGTH - 2),
         LongUrl |-> Padded(<<"h", ":">>, MAX_URL_LENGTH - 1),
         LongNotUrl |-> Padded(<<"n", "o", " ">>, MAX_URL_LENGTH - 2)]

\* The entries fed in.
Eg ==
    LET PageA == UrlEntry_new(Txt.UrlA)
        PageFull == UrlEntry(Txt.UrlB, Some(Txt.DateA), Some("Daily"), Some(100))
        PagePrioHigh == UrlEntry(Txt.UrlA, None, None, Some(101))
        PagePrioLow == UrlEntry(Txt.UrlA, None, None, Some(-1))
        ImageA == ImageEntry_new(Txt.UrlA)
        ImageFull == [loc |-> Txt.UrlB, caption |-> Some(Txt.TextT),
            geo_location |-> Some(GeoLocation(None, Some(Txt.TextT), Some(Txt.TextQ))),
            title |-> Some(Txt.TextQ), license |-> Some(Txt.UrlA)]
        VideoA == VideoEntry_new(Txt.UrlA, Txt.TextT, Txt.TextT)
        VideoFull == [VideoA EXCEPT
            !.content_loc = Some(Txt.UrlB), !.player_loc = Some(Txt.UrlA), !.duration = Some(600),
            !.publication_date = Some(Txt.DateA), !.expiration_date = Some(Txt.DateA),
            !.rating = Some(450), !.view_count = Some(12), !.family_friendly = Some(TRUE),
            !.tags = <<Txt.TextT, Txt.TextQ>>, !.category = Some(Txt.TextT),
            !.restriction = Some([tag |-> "Allow", list |-> <<Txt.TextT, Txt.TextT>>]),
            !.gallery_loc = Some(Txt.UrlA),
            !.platform = Some([tag |-> "Deny", list |-> <<"Web", "Tv">>]),
            !.prices = <<[VideoPrice_new(Txt.TextT, 199) EXCEPT !.resolution = Some(Txt.TextT)]>>,
            !.requires_subscription = Some("No"),
            !.uploader = Some([VideoUploader_new(Txt.TextQ) EXCEPT !.info_url = Some(Txt.UrlAmp)]),
            !.live = Some("Yes")]
        NewsA == NewsEntry_new(NewsPublication_new(Txt.TextT, Txt.LangEn), Txt.DateA, Txt.TextT)
        NewsFull == [NewsA EXCEPT !.keywords = Some(Txt.TextQ), !.stock_tickers = Some(Txt.TextT)]
        Geo(n) == GeoLocation(IF n % 2 = 1 THEN Some(Txt.TextT) ELSE None,
                              IF (n \div 2) % 2 = 1 THEN Some(Txt.LangEn) ELSE None,
                              IF (n \div 4) % 2 = 1 THEN Some(Txt.UrlB) ELSE None)
        GeoImages == [n \in 1..18 |->
                        [ImageA EXCEPT !.caption = IF n <= 9 THEN Some(Txt.TextQ) ELSE None,
                                       !.title = IF n <= 9 THEN Some(Txt.TextQ) ELSE None,
                                       !.geo_location = IF n % 9 = 0 THEN None
                                                        ELSE Some(Geo((n % 9) - 1))]]
        CombinedPlain == UrlWithExtensions(PageA, <<>>, <<>>, None)
        CombinedNews == UrlWithExtensions(PageA, <<>>, <<>>, Some(NewsA))
    IN  [PageA |-> PageA,
         PageFull |-> PageFull,
         PagePrioHigh |-> PagePrioHigh,
         PagePrioLow |-> PagePrioLow,
         ImageA |-> ImageA,
         ImageFull |-> ImageFull,
         GeoImages |-> GeoImages,
         VideoA |-> VideoA,
         VideoFull |-> VideoFull,
         NewsA |-> NewsA,
         NewsFull |-> NewsFull,
         CombinedPlain |-> CombinedPlain,
         CombinedNews |-> CombinedNews]

Pool(k) ==
    CASE k = "Sitemap" ->
           {Eg.PageA, Eg.PageFull,
           [Eg.PagePrioHigh EXCEPT !.changefreq = Some("Hourly")],
           [Eg.PagePrioLow EXCEPT !.changefreq = Some("Weekly")],
           UrlEntry_new(Txt.UrlAmp), UrlEntry_new(Txt.NotUrl), UrlEntry_new(Txt.NotUrlLt),
           UrlEntry(Txt.UrlA, Some(Txt.DateA), Some("Yearly"), Some(80)),
           UrlEntry(Txt.UrlA, None, Some("Always"), Some(0)),
           UrlEntry(Txt.UrlA, Some(Txt.NotDate), None, None),
           UrlEntry(Txt.UrlA, Some(Txt.HugeDate), None, None),
           UrlEntry(Txt.UrlA, None, Some("Monthly"), None),
           UrlEntry(Txt.UrlA, None, Some("Never"), None)}
      [] k = "Image" ->
           {UrlWithImages(Eg.PageA, <<>>),
           UrlWithImages(Eg.PageA, <<Eg.ImageA>>),
           UrlWithImages(Eg.PageFull, <<Eg.ImageFull, Eg.ImageA>>),
           UrlWithImages(Eg.PagePrioHigh, <<Eg.ImageA>>),
           UrlWithImages(Eg.PagePrioLow, <<>>),
           UrlWithImages(UrlEntry_new(Txt.NotUrl), <<Eg.ImageA>>),
           UrlWithImages(Eg.PageA, <<ImageEntry_new(Txt.NotUrl)>>),
           UrlWithImages(Eg.PageA, <<[Eg.ImageA EXCEPT !.caption = Some(Txt.HugeText)]>>)}
      [] k = "Video" ->
           {UrlWithVideos(Eg.PageA, <<>>),
           UrlWithVideos(Eg.PageA, <<Eg.VideoA>>),
           UrlWithVideos(Eg.PageFull, <<Eg.VideoFull, Eg.VideoA>>),
           UrlWithVideos(Eg.PagePrioHigh, <<Eg.VideoA>>),
           UrlWithVideos(Eg.PagePrioLow, <<>>),
           UrlWithVideos(UrlEntry_new(Txt.NotUrl), <<Eg.VideoA>>),
           UrlWithVideos(Eg.PageA, <<[Eg.VideoA EXCEPT !.thumbnail_loc = Txt.NotUrl]>>),
           UrlWithVideos(Eg.PageA, <<[Eg.VideoA EXCEPT !.category = Some(Txt.HugeText)]>>)}
      [] k = "Index" ->
           {SitemapIndexEntry(Txt.UrlA, None),
           SitemapIndexEntry(Txt.UrlB, Some(Txt.DateA)),
           SitemapIndexEntry(Txt.UrlAmp, None),
           SitemapIndexEntry(Txt.NotUrl, None),
           SitemapIndexEntry(Txt.UrlA, Some(Txt.NotDate)),
           SitemapIndexEntry(Txt.UrlA, Some(Txt.HugeDate))}
      [] k = "News" ->
           {UrlWithNews(Eg.PageA, Eg.NewsA),
           UrlWithNews(Eg.PageFull, Eg.NewsFull),
           UrlWithNews(Eg.PagePrioHigh, Eg.NewsA),
           UrlWithNews(Eg.PagePrioLow, Eg.NewsA),
           UrlWithNews(UrlEntry_new(Txt.NotUrl), Eg.NewsA),
           UrlWithNews(Eg.PageA, [Eg.NewsA EXCEPT !.publication.language = Txt.LangBad]),
           UrlWithNews(Eg.PageA, [Eg.NewsA EXCEPT !.title = Txt.HugeText])}
      [] k = "Combined" ->
           {Eg.CombinedPlain, Eg.CombinedNews,
           UrlWithExtensions(Eg.PageA, <<Eg.ImageA>>, <<>>, None),
           UrlWithExtensions(Eg.PageA, <<>>, <<Eg.VideoA>>, None),
           UrlWithExtensions(Eg.PageFull, <<Eg.ImageFull, Eg.ImageA>>, <<Eg.VideoFull>>, Some(Eg.NewsFull)),
           UrlWithExtensions(Eg.PagePrioHigh, <<Eg.ImageA>>, <<>>, None),
           UrlWithExtensions(Eg.PagePrioLow, <<>>, <<>>, Some(Eg.NewsA)),
           UrlWithExtensions(UrlEntry_new(Txt.NotUrl), <<>>, <<Eg.VideoA>>, None),
           UrlWithExtensions(Eg.PageA, <<[Eg.ImageA EXCEPT !.caption = Some(Txt.HugeText)]>>, <<>>, None)}

\* The vectors handed to add_urls: two different entries, and vec![e; n]
\* with n at a count ceiling.
BulkPool(k) ==
    CASE k = "Sitemap" -> {<<Run(Eg.PageA, MAX_URLS)>>, <<Run(Eg.PageA, 1), Run(Eg.PageFull, 1)>>}
      [] k = "Image" -> {<<Run(UrlWithImages(Eg.PageA, <<Eg.ImageA>>), MAX_URLS)>>,
                         <<Run(UrlWithImages(Eg.PageA, <<>>), 1),
                           Run(UrlWithImages(Eg.PageA, <<Eg.ImageA>>), 1)>>}
      [] k = "Video" -> {<<Run(UrlWithVideos(Eg.PageA, <<Eg.VideoA>>), MAX_URLS)>>,
                         <<Run(UrlWithVideos(Eg.PageA, <<>>), 1),
                           Run(UrlWithVideos(Eg.PageA, <<Eg.VideoA>>), 1)>>}
      [] k = "Index" -> {<<Run(SitemapIndexEntry(Txt.UrlA, None), MAX_URLS)>>,
                         <<Run(SitemapIndexEntry(Txt.UrlA, None), 1),
                           Run(SitemapIndexEntry(Txt.UrlB, Some(Txt.DateA)), 1)>>}
      [] k = "News" -> {<<Run(UrlWithNews(Eg.PageA, Eg.NewsA), MAX_NEWS_URLS)>>,
                        <<Run(UrlWithNews(Eg.PageA, Eg.NewsA), 1),
                          Run(UrlWithNews(Eg.PageFull, Eg.NewsFull), 1)>>}
      [] k = "Combined" -> {<<Run(Eg.CombinedPlain, MAX_URLS)>>,
                            <<Run(Eg.CombinedPlain, MAX_NEWS_URLS)>>,
                            <<Run(Eg.CombinedNews, MAX_NEWS_URLS)>>,
                            <<Run(Eg.CombinedPlain, 1), Run(Eg.CombinedNews, 1)>>}

(***************************************************************************)
(* The state machine: one builder, and the value returned by the last call *)
(* (ret).  ctor records the constructor and toggled whether validate(..)   *)
(* was ever called.  file is the content of the path that write and        *)
(* write_compressed are given, None while no file is there.                *)
(***************************************************************************)
NoRet == [op |-> "none"]

Init ==
    /\ kind \in Kinds
    /\ ctor \in Ctors
    /\ toggled = FALSE
    /\ validate = CtorValidate(kind, ctor)
    /\ entries = <<>>
    /\ ret = NoRet
    /\ file = None
    /\ scan = [input |-> <<>>, st |-> ParseInit]

\* pub fn validate(mut self, validate: bool) -> Self
Validate(b) ==
    /\ validate' = b
    /\ toggled' = TRUE
    /\ ret' = NoRet
    /\ UNCHANGED <<kind, ctor, entries, file, scan>>

\* add_url putting the entry in front of the sequence.
AddUrl_prepend(e) ==
    /\ Len(entries) < MaxRuns
    /\ entries' = <<Run(e, 1)>> \o entries
    /\ ret' = NoRet
    /\ UNCHANGED <<kind, ctor, toggled, validate, file, scan>>

\* add_url (add_sitemap for the index builder)
AddUrl(e) ==
    /\ Len(entries) < MaxRuns
    /\ entries' = Append(entries, Run(e, 1))
    /\ ret' = NoRet
    /\ UNCHANGED <<kind, ctor, toggled, validate, file, scan>>

\* add_urls (add_sitemaps for the index builder)
AddUrls(es) ==
    /\ Len(entries) + Len(es) <= MaxRuns
    /\ entries' = entries \o es
    /\ ret' = NoRet
    /\ UNCHANGED <<kind, ctor, toggled, validate, file, scan>>

\* build draining the entries it serialized.
Build_draining ==
    /\ ret' = [op |-> "build", res |-> build(kind, entries, validate)]
    /\ entries' = <<>>
    /\ UNCHANGED <<kind, ctor, toggled, validate, file, scan>>

Build ==
    /\ ret' = [op |-> "build", res |-> build(kind, entries, validate)]
    /\ UNCHANGED <<kind, ctor, toggled, validate, entries, file, scan>>

\* The documents the model parses back hold no run of more than one entry.
Small(doc) == \A i \in 1..Len(doc.body) : doc.body[i].reps = 1

\* SitemapParser::parse_string on the document just built.
ParseString ==
    /\ ret.op = "build" /\ ret.res.ok /\ Small(ret.res.doc)
    /\ ret' = [op |-> "parse_string", xml |-> ret.res.doc, res |-> parse_string(ret.res.doc)]
    /\ UNCHANGED <<kind, ctor, toggled, validate, entries, file, scan>>

\* SitemapParser::parse_index_string on the document just built.
ParseIndexString ==
    /\ ret.op = "build" /\ ret.res.ok /\ Small(ret.res.doc)
    /\ ret' = [op |-> "parse_index_string", xml |-> ret.res.doc,
               res |-> parse_index_string(ret.res.doc)]
    /\ UNCHANGED <<kind, ctor, toggled, validate, entries, file, scan>>

Next ==
    \/ \E b \in BOOLEAN : Validate(b)
    \/ \E e \in Pool(kind) : AddUrl(e)
    \/ \E es \in BulkPool(kind) : AddUrls(es)
    \/ Build
    \/ ParseString
    \/ ParseIndexString

Spec == Init /\ [][Next]_vars

(***************************************************************************)
(* builder.rs: build_bytes, build_compressed_bytes, write and              *)
(* write_compressed, which all begin with `let xml = self.build()?`.  The   *)
(* six builders hold the same four functions.  File::create and the write  *)
(* into the file may fail; the outcome is the environment's choice.        *)
(***************************************************************************)
\* String::into_bytes / as_bytes: the document as a Vec<u8>.
Bytes(xml) == [bytes |-> xml]

\* GzEncoder::write_all and finish: the gzip stream of the bytes.
Gzip(bytes) == [gzip |-> bytes]

\* What a file holds after File::create truncated it and the write failed
\* part way: some prefix of the content, which the model does not tell apart.
Partial == [partial |-> TRUE]

IoOutcomes == {"ok", "create_err", "write_err"}

\* build_bytes serializing without the checks build makes.
build_bytes_unvalidated(k, es, flag) ==
    LET xml == build(k, es, FALSE)
    IN  IF ~xml.ok THEN ErrRes(xml.err) ELSE OkRes(Bytes(xml.doc))

build_bytes(k, es, flag) ==
    LET xml == build(k, es, flag)
    IN  IF ~xml.ok THEN ErrRes(xml.err) ELSE OkRes(Bytes(xml.doc))

build_compressed_bytes(k, es, flag) ==
    LET xml == build(k, es, flag)
    IN  IF ~xml.ok THEN ErrRes(xml.err) ELSE OkRes(Gzip(Bytes(xml.doc)))

\* WriteFile opening the file before the document is built.
WriteFile_create_first(xml, content, io, old) ==
    IF io = "create_err" THEN [res |-> ErrRes("Io"), file |-> old]
    ELSE IF ~xml.ok THEN [res |-> ErrRes(xml.err), file |-> Some(Partial)]
    ELSE IF io = "write_err" THEN [res |-> ErrRes("Io"), file |-> Some(Partial)]
    ELSE [res |-> OkRes(NoDoc), file |-> Some(content)]

\* The result and the file left behind by a write of content over old.
WriteFile(xml, content, io, old) ==
    IF ~xml.ok THEN [res |-> ErrRes(xml.err), file |-> old]
    ELSE IF io = "create_err" THEN [res |-> ErrRes("Io"), file |-> old]
    ELSE IF io = "write_err" THEN [res |-> ErrRes("Io"), file |-> Some(Partial)]
    ELSE [res |-> OkRes(NoDoc), file |-> Some(content)]

write(k, es, flag, io, old) ==
    LET xml == build(k, es, flag)
    IN  WriteFile(xml, Bytes(xml.doc), io, old)

write_compressed(k, es, flag, io, old) ==
    LET xml == build(k, es, flag)
    IN  WriteFile(xml, Gzip(Bytes(xml.doc)), io, old)

BuildBytes ==
    /\ ret' = [op |-> "build_bytes", res |-> build_bytes(kind, entries, validate)]
    /\ UNCHANGED <<kind, ctor, toggled, validate, entries, file, scan>>

BuildCompressedBytes ==
    /\ ret' = [op |-> "build_compressed_bytes",
               res |-> build_compressed_bytes(kind, entries, validate)]
    /\ UNCHANGED <<kind, ctor, toggled, validate, entries, file, scan>>

Write(io) ==
    LET out == write(kind, entries, validate, io, file)
    IN  /\ ret' = [op |-> "write", res |-> out.res]
        /\ file' = out.file
        /\ UNCHANGED <<kind, ctor, toggled, validate, entries, scan>>

WriteCompressed(io) ==
    LET out == write_compressed(kind, entries, validate, io, file)
    IN  /\ ret' = [op |-> "write_compressed", res |-> out.res]
        /\ file' = out.file
        /\ UNCHANGED <<kind, ctor, toggled, validate, entries, scan>>

\* The entries offered where the build family is exercised: one valid and
\* one with an invalid URL, for the plain builder URLs at and over the
\* length limit, for the builders that carry images or videos an asset
\* with an invalid or too long URL.
FilePool(k) ==
    CASE k = "Sitemap" ->
           {Eg.PageA, UrlEntry_new(Txt.NotUrl), UrlEntry_new(Txt.MaxUrl),
            UrlEntry_new(Txt.LongUrl), UrlEntry_new(Txt.LongNotUrl)}
      [] k = "Image" ->
           {UrlWithImages(Eg.PageA, <<Eg.ImageA>>),
            UrlWithImages(UrlEntry_new(Txt.NotUrl), <<Eg.ImageA>>),
            UrlWithImages(Eg.PageA, <<Eg.ImageA, ImageEntry_new(Txt.NotUrl)>>)}
      [] k = "Video" ->
           {UrlWithVideos(Eg.PageA, <<Eg.VideoA>>),
            UrlWithVideos(UrlEntry_new(Txt.NotUrl), <<Eg.VideoA>>),
            UrlWithVideos(Eg.PageA, <<[Eg.VideoA EXCEPT !.player_loc = Some(Txt.LongUrl)]>>)}
      [] k = "Index" -> {SitemapIndexEntry(Txt.UrlA, None), SitemapIndexEntry(Txt.NotUrl, None)}
      [] k = "News" ->
           {UrlWithNews(Eg.PageA, Eg.NewsA), UrlWithNews(UrlEntry_new(Txt.NotUrl), Eg.NewsA)}
      [] k = "Combined" ->
           {Eg.CombinedPlain, UrlWithExtensions(UrlEntry_new(Txt.NotUrl), <<>>, <<>>, None),
            UrlWithExtensions(Eg.PageA, <<ImageEntry_new(Txt.NotUrl)>>, <<>>, None),
            UrlWithExtensions(Eg.PageA, <<>>,
                              <<[Eg.VideoA EXCEPT !.player_loc = Some(Txt.LongUrl)]>>, None)}

InitFiles == Init /\ ctor = "new"

NextFiles ==
    \/ \E b \in BOOLEAN : Validate(b)
    \/ \E e \in FilePool(kind) : AddUrl(e)
    \/ Build
    \/ BuildBytes
    \/ BuildCompressedBytes
    \/ \E io \in IoOutcomes : Write(io)
    \/ \E io \in IoOutcomes : WriteCompressed(io)

SpecFiles == InitFiles /\ [][NextFiles]_vars

(***************************************************************************)
(* parser.rs: parse_reader and parse_index_reader, one turn of their loop  *)
(* at a time.  scan.input is what read_event_into has delivered so far and *)
(* scan.st the locals of the function.  The documents read hold a root     *)
(* element, url (sitemap) elements in it, and in these the field elements, *)
(* an element of another name, written with a text or as an empty tag, and *)
(* text of their own; the reader may also report a syntax error anywhere.  *)
(* The index documents carry lastmod, the plain ones changefreq, priority  *)
(* and a loc written with a namespace prefix (sm:loc).                     *)
(***************************************************************************)
\* The names of the elements open after the events of input, innermost last.
RECURSIVE OpenNames(_)
OpenNames(input) ==
    IF input = <<>> THEN <<>>
    ELSE LET before == OpenNames(SubSeq(input, 1, Len(input) - 1))
             ev == input[Len(input)]
         IN  IF ev.t = "Start" THEN Append(before, ev.name)
             ELSE IF ev.t = "End" THEN SubSeq(before, 1, Len(before) - 1)
             ELSE before

\* The events read_event_into may deliver after input, for the parser of
\* documents of kind k.
ReaderNext(k, input) ==
    LET open == OpenNames(input)
        top == open[Len(open)]
        item == IF k = "Index" THEN "sitemap" ELSE "url"
        fields == IF k = "Index" THEN {"loc", "lastmod", "foo"}
                  ELSE {"loc", "sm:loc", "changefreq", "priority", "foo"}
        afterText == input[Len(input)].t = "Text"
        texts == CASE top = "loc" -> IF k = "Index" THEN {Txt.UrlA, Txt.NotUrl} ELSE {Txt.UrlA}
                   [] top = "sm:loc" -> {Txt.UrlB}
                   [] top = "lastmod" -> {Txt.NotDate}
                   [] top = "changefreq" -> {Str(ChangeFreq_as_str("Daily")), Txt.NotDate}
                   [] top = "priority" -> {Str(FormatF32(150)), Txt.NotDate}
                   [] OTHER -> {Txt.TextT}
    IN  {[t |-> "Error"]}
        \cup CASE input = <<>> ->
                    {StartEv(IF k = "Index" THEN "sitemapindex" ELSE "urlset", <<>>)}
               [] open = <<>> -> {[t |-> "Eof"]}
               [] Len(open) = 1 ->
                    {StartEv(item, <<>>), [t |-> "Empty", name |-> item], EndEv(top)}
               [] Len(open) = 2 ->
                    {StartEv(f, <<>>) : f \in fields}
                    \cup {[t |-> "Empty", name |-> "foo"], EndEv(top)}
                    \cup (IF afterText THEN {} ELSE {TextEv(Txt.TextT)})
               [] OTHER ->
                    {EndEv(top)} \cup (IF afterText THEN {} ELSE {TextEv(x) : x \in texts})

\* One turn of the loop of parse_reader (parse_index_reader for the index
\* kind) on the event ev; the function returns when the loop ends.  The
\* documents read have at most MaxEvents events, the end of input counted: an
\* event is read only if the elements then open can still be closed.
ReadEvent(ev) ==
    LET st == IF kind = "Index" THEN ParseIndexStep(scan.st, ev) ELSE ParseStep(scan.st, ev)
    IN  /\ ~scan.st.done /\ scan.st.err = Ok
        /\ Len(scan.input) + 1
              + (IF ev.t \in {"Eof", "Error"} THEN 0
                 ELSE Len(OpenNames(Append(scan.input, ev))) + 1) <= MaxEvents
        /\ ev \in ReaderNext(kind, scan.input)
        /\ scan' = [input |-> Append(scan.input, ev), st |-> st]
        /\ ret' = IF st.done \/ st.err # Ok
                  THEN [op |-> "parse_reader", res |-> ParseResult(st)]
                  ELSE ret
        /\ UNCHANGED <<kind, ctor, toggled, validate, entries, file>>

Events ==
    {[t |-> "Error"], [t |-> "Eof"]}
    \cup {[t |-> "Empty", name |-> n] : n \in {"foo", "url", "sitemap"}}
    \cup {StartEv(n, <<>>) : n \in {"urlset", "sitemapindex", "url", "sitemap", "loc",
                                    "sm:loc", "lastmod", "changefreq", "priority", "foo"}}
    \cup {EndEv(n) : n \in {"urlset", "sitemapindex", "url", "sitemap", "loc",
                            "sm:loc", "lastmod", "changefreq", "priority", "foo"}}
    \cup {TextEv(x) : x \in {Txt.UrlA, Txt.UrlB, Txt.NotUrl, Txt.NotDate, Txt.TextT,
                             Str(ChangeFreq_as_str("Daily")), Str(FormatF32(150))}}

NextParse == \E ev \in Events : ReadEvent(ev)

InitParse == Init /\ ctor = "new" /\ kind \in {"Sitemap", "Index"}

SpecParse == InitParse /\ [][NextParse]_vars

(***************************************************************************)
(* validator.rs: validate_stock_tickers, validate_language_code and        *)
(* validate_date called on their own, on every string of a small family;   *)
(* writer.rs: write_image_entry called on its own.                         *)
(***************************************************************************)
\* The strings handed to the validators: every text of at most MaxText
\* characters over a few characters for the tickers and the language codes,
\* and for the dates a year, a month and the rest joined by '-'.
Inputs ==
    LET Texts(alphabet, n) == UNION {[1..len -> alphabet] : len \in 0..n}
        years == {<<"2", "0", "2", "5">>, <<"2", "0", "2">>, <<"2", "0", "2", "5", "5">>,
                  <<"2", "o", "2", "5">>}
        months == {<<"1", "1">>, <<"1", "3">>, <<"1">>, <<"1", "1", "1">>, <<"1", "a">>}
        rests == {<<"0", "1">>, <<"4", "5">>, <<"1">>, <<"0", "a">>, <<"a", "1">>, <<"0", "1", "1">>,
                  <<"0", "1", "T", "1", "0", ":", "0", "0">>,
                  <<"0", "1", "T", "1", "0", ":", "0", "0", "-", "0", "7", ":", "0", "0">>}
    IN  [validate_stock_tickers |-> {Str(x) : x \in Texts({",", "a", " "}, MaxText)},
         validate_language_code |->
             {Str(x) : x \in Texts({"z", "h", "-", "c", "n"}, MaxText - 1)}
             \cup {Str(<<"z", "h", "-", "t", "w">>), Str(<<"e", "n", "-", "u", "s">>),
                   Txt.LangEn, Txt.LangBad, Str(<<"e", "1">>), Padded(<<"e", "n">>, 1),
                   Padded(<<"e", "n">>, MAX_URL_LENGTH)},
         validate_date |->
             {Str(y \o <<"-">> \o m \o <<"-">> \o r) : y \in years, m \in months, r \in rests}
             \cup {Str(y \o <<"-">> \o m \o r) : y \in years, m \in months, r \in rests}
             \cup {Txt.DateA, Txt.NotDate, Txt.HugeDate, Str(<<>>)}]

\* A call of the validator named f on the string x.
Check(f, x) ==
    /\ ret' = [op |-> f, arg |-> x,
               res |-> CASE f = "validate_stock_tickers" -> validate_stock_tickers(x)
                         [] f = "validate_language_code" -> validate_language_code(x)
                         [] f = "validate_date" -> validate_date(x)]
    /\ UNCHANGED <<kind, ctor, toggled, validate, entries, file, scan>>

\* A call of write_image_entry on an image, on a writer that holds nothing yet.
WriteImageEntry(image) ==
    /\ ret' = [op |-> "write_image_entry", arg |-> image, res |-> write_image_entry(image)]
    /\ UNCHANGED <<kind, ctor, toggled, validate, entries, file, scan>>

\* These functions keep no state, so one call per behaviour shows all they do.
NextCheck ==
    /\ ret = NoRet
    /\ \/ \E f \in DOMAIN Inputs : \E x \in Inputs[f] : Check(f, x)
       \/ \E n \in DOMAIN Eg.GeoImages : WriteImageEntry(Eg.GeoImages[n])

SpecCheck == InitFiles /\ [][NextCheck]_vars

(***************************************************************************)
(* Properties.  The operators below read the state; they model no code.    *)
(***************************************************************************)
\* The characters XML reserves.
Specials == {"&", "<", ">", "\"", "'"}

\* The characters of a string (its padding holds none of the Specials).
Chars(x) == {x.s[i] : i \in 1..Len(x.s)}

\* The page-level record of an entry of builder kind k.
PageOf(k, e) == IF k \in {"Sitemap", "Index"} THEN e ELSE e.url

\* The document the writer of builder kind k produces for es.
Serialized(k, es) ==
    CASE k = "Sitemap" -> write_sitemap(es)
      [] k = "Image" -> write_image_sitemap(es)
      [] k = "Video" -> write_video_sitemap(es)
      [] k = "Index" -> write_sitemap_index(es)
      [] k = "News" -> write_news_sitemap(es)
      [] k = "Combined" -> write_combined_sitemap(es)

\* The per-entry checks of builder kind k, without the count check.
EntryChecks(k, e) ==
    CASE k = "Sitemap" -> SitemapChecks(e)
      [] k = "Image" -> ImageSitemapChecks(e)
      [] k = "Video" -> VideoSitemapChecks(e)
      [] k = "Index" -> IndexChecks(e)
      [] k = "News" -> NewsSitemapChecks(e)
      [] k = "Combined" -> CombinedChecks(e)

\* The count check of builder kind k (the index builder makes none).
CountCheck(k, es) ==
    CASE k \in {"Sitemap", "Image", "Video"} -> validate_url_count(EntriesLen(es))
      [] k = "Index" -> Ok
      [] k = "News" -> validate_news_url_count(EntriesLen(es))
      [] k = "Combined" -> CombinedCountCheck(es)

\* Every entry passes the checks of its builder and the document fits the
\* size limit.
EntriesValid ==
    /\ \A i \in 1..Len(entries) : FirstErr(EntryChecks(kind, entries[i].entry)) = Ok
    /\ validate_size(DocLen(Serialized(kind, entries))) = Ok

\* The text written inside the loc element of the i-th url element.
LocText(doc, i) == doc.body[i].events[3].text

\* The attribute names of the root element.
RootAttrs(doc) == {doc.head[2].attrs[i].k : i \in 1..Len(doc.head[2].attrs)}

\* The names of the child elements of the element evs holds, in order.
ChildNames(evs) ==
    LET depth(i) == Cardinality({j \in 1..(i - 1) : evs[j].t = "Start"})
                    - Cardinality({j \in 1..(i - 1) : evs[j].t = "End"})
        IsChild(i) == evs[i].t = "Start" /\ depth(i) = 1
        idx == SelectSeq([i \in 1..Len(evs) |-> i], IsChild)
    IN  [j \in 1..Len(idx) |-> evs[idx[j]].name]

\* C1: for plain entries that pass every check of the plain builder, parsing
\* the built document returns the same entries, in order, field for field.
C1_RoundTrip ==
    (kind = "Sitemap" /\ ret.op = "parse_string"
       /\ SitemapBuilder_validate_entries(entries, TRUE) = Ok)
    => (ret.res.ok /\ ret.res.entries = Entries(entries))

\* C2: a bare '&' in a plain entry's loc appears in the built document as
\* '&amp;', escaped exactly once, and parse_string recovers the original loc.
C2_AmpersandEscapedOnce ==
    kind = "Sitemap" =>
      /\ (ret.op = "build" /\ ret.res.ok) =>
           \A i \in 1..Len(entries) :
             Chars(entries[i].entry.loc) \cap Specials = {"&"}
             => LocText(ret.res.doc, i).s = Replace(entries[i].entry.loc.s, "&", XmlEntity("&"))
      /\ (ret.op = "parse_string" /\ ret.res.ok) =>
           /\ Len(ret.res.entries) = Len(entries)
           /\ \A i \in 1..Len(entries) :
                "&" \in Chars(entries[i].entry.loc)
                => ret.res.entries[i].loc = entries[i].entry.loc

\* C3: with validation enabled and every entry valid, the plain builder
\* builds 50,000 entries (and fewer) and fails with TooManyUrls on 50,001 or
\* more.
C3_PlainCountCeiling ==
    (kind = "Sitemap" /\ validate /\ ret.op = "build" /\ EntriesValid)
    => /\ EntriesLen(entries) <= MAX_URLS => ret.res.ok
       /\ EntriesLen(entries) > MAX_URLS => ret.res.err = "TooManyUrls"

\* C3 happens: exactly 50,000 valid entries built with validation enabled.
C3_Witness ==
    /\ kind = "Sitemap" /\ validate /\ ret.op = "build"
    /\ EntriesLen(entries) = MAX_URLS
    /\ ret.res.ok

\* C4: with validation enabled and every entry valid, a news document, and a
\* combined document with news on an entry at any position, builds with up
\* to 1,000 entries and fails with 1,001; a combined document with no news
\* is held to 50,000 entries instead, so 1,001 of them build.
C4_NewsCountCeiling ==
    (kind \in {"News", "Combined"} /\ validate /\ ret.op = "build" /\ EntriesValid)
    => LET n == EntriesLen(entries)
           news == kind = "News" \/ AnyEntry(entries, HasNews)
       IN  IF news
           THEN /\ n <= MAX_NEWS_URLS => ret.res.ok
                /\ n > MAX_NEWS_URLS => ret.res.err = "Validation"
           ELSE /\ n <= MAX_URLS => ret.res.ok
                /\ n > MAX_URLS => ret.res.err = "TooManyUrls"

\* C4 happens: a combined batch of 1,001 entries whose only news is on the
\* last entry is refused.
C4_Witness ==
    /\ kind = "Combined" /\ validate /\ ret.op = "build"
    /\ EntriesLen(entries) = MAX_NEWS_URLS + 1
    /\ ~HasNews(entries[1].entry)
    /\ HasNews(entries[Len(entries)].entry)
    /\ ret.res.err = "Validation"

\* Whether entry e of builder kind k carries an image, a video, a news block.
CarriesImage(k, e) == k \in {"Image", "Combined"} /\ e.images # <<>>

CarriesVideo(k, e) == k \in {"Video", "Combined"} /\ e.videos # <<>>

CarriesNews(k, e) == k = "News" \/ (k = "Combined" /\ IsSome(e.news))

\* C5 as stated: for the image, video, news and combined builders the root
\* declares xmlns:image, xmlns:video, xmlns:news if and only if some entry of
\* the batch carries an image, a video, a news block.
C5_NamespaceMinimality ==
    (kind \in {"Image", "Video", "News", "Combined"} /\ ret.op = "build" /\ ret.res.ok)
    => LET some(P(_, _)) == \E i \in 1..Len(entries) : P(kind, entries[i].entry)
           ns == RootAttrs(ret.res.doc)
       IN  /\ "xmlns:image" \in ns <=> some(CarriesImage)
           /\ "xmlns:video" \in ns <=> some(CarriesVideo)
           /\ "xmlns:news" \in ns <=> some(CarriesNews)

\* C5 amended: the combined builder declares each extension namespace if and
\* only if some entry carries that extension; the image, video and news
\* builders always declare their own extension namespace, whatever the
\* batch holds, and no other; the plain and index builders declare none.
C5_NamespacesByKind ==
    (ret.op = "build" /\ ret.res.ok)
    => LET some(P(_, _)) == \E i \in 1..Len(entries) : P(kind, entries[i].entry)
           ns == RootAttrs(ret.res.doc)
       IN  CASE kind = "Combined" ->
                  /\ "xmlns" \in ns
                  /\ "xmlns:image" \in ns <=> some(CarriesImage)
                  /\ "xmlns:video" \in ns <=> some(CarriesVideo)
                  /\ "xmlns:news" \in ns <=> some(CarriesNews)
             [] kind = "Image" -> ns = {"xmlns", "xmlns:image"}
             [] kind = "Video" -> ns = {"xmlns", "xmlns:video"}
             [] kind = "News" -> ns = {"xmlns", "xmlns:news"}
             [] OTHER -> ns = {"xmlns"}

\* C5 happens: an image document built from a batch with no image declares
\* xmlns:image.
C5_Witness ==
    /\ kind = "Image" /\ ret.op = "build" /\ ret.res.ok
    /\ \A i \in 1..Len(entries) : ~CarriesImage(kind, entries[i].entry)
    /\ "xmlns:image" \in RootAttrs(ret.res.doc)

\* C6: with validation disabled build succeeds whatever the batch holds, an
\* invalid loc and a count over the ceiling included, and the document holds
\* one url element per run whose loc text is the entry's loc (for a loc free
\* of XML special characters).
C6_ValidationBypass ==
    (~validate /\ ret.op = "build")
    => /\ ret.res.ok
       /\ Len(ret.res.doc.body) = Len(entries)
       /\ \A i \in 1..Len(entries) :
            /\ ret.res.doc.body[i].reps = entries[i].reps
            /\ Chars(PageOf(kind, entries[i].entry).loc) \cap Specials = {}
               => LocText(ret.res.doc, i) = PageOf(kind, entries[i].entry).loc

\* C6 happens: validation is disabled, the batch is over the count ceiling
\* and holds a loc that is no URL, and build returned a document.
C6_Witness ==
    /\ ~validate /\ ret.op = "build" /\ ret.res.ok
    /\ EntriesLen(entries) > MAX_URLS
    /\ \E i \in 1..Len(entries) :
         /\ validate_url(PageOf(kind, entries[i].entry).loc) = "InvalidUrl"
         /\ LocText(ret.res.doc, i) = PageOf(kind, entries[i].entry).loc

\* C7 as stated: with validation disabled, a batch whose document is longer
\* than 52,428,800 bytes fails with SizeExceeded.
C7_SizeGuardSurvivesToggle ==
    (~validate /\ ret.op = "build"
       /\ DocLen(Serialized(kind, entries)) > MAX_SIZE_BYTES)
    => ret.res.err = "SizeExceeded"

\* C7 amended: the size check follows the validate flag.  With validation
\* disabled build returns the document whatever its length; with validation
\* enabled no returned document is longer than 52,428,800 bytes, and a valid
\* batch whose document is longer fails with SizeExceeded.
C7_SizeGuardFollowsToggle ==
    ret.op = "build"
    => LET xml == Serialized(kind, entries)
           checked == \A i \in 1..Len(entries) :
                         FirstErr(EntryChecks(kind, entries[i].entry)) = Ok
       IN  /\ ~validate => (ret.res.ok /\ ret.res.doc = xml)
           /\ (validate /\ ret.res.ok) => DocLen(ret.res.doc) <= MAX_SIZE_BYTES
           /\ (validate /\ checked /\ CountCheck(kind, entries) = Ok
                 /\ DocLen(xml) > MAX_SIZE_BYTES)
              => ret.res.err = "SizeExceeded"
           /\ ret.res.err = "SizeExceeded"
              => (validate /\ DocLen(xml) > MAX_SIZE_BYTES)

\* C7 happens: validation is disabled and build returned a document longer
\* than the size limit.
C7_Witness ==
    /\ ~validate /\ ret.op = "build" /\ ret.res.ok
    /\ DocLen(ret.res.doc) > MAX_SIZE_BYTES

\* C8: a builder of any of the six kinds, from any constructor, that was
\* never passed through validate(..) has validation enabled, and its build
\* returns what the build of a builder from new() returns.
C8_ValidationOnByDefault ==
    ~toggled
    => /\ validate = TRUE
       /\ ret.op = "build" => ret.res = build(kind, entries, CtorValidate(kind, "new"))

\* C9: with validation enabled, the plain, image, video, news and combined
\* builders fail when some entry's page priority is present and outside
\* [0.0, 1.0], and none fails with InvalidPriority otherwise.
C9_PriorityBounds ==
    (kind \in {"Sitemap", "Image", "Video", "News", "Combined"}
       /\ validate /\ ret.op = "build")
    => LET outside(e) == /\ IsSome(PageOf(kind, e).priority)
                         /\ validate_priority(Unwrap(PageOf(kind, e).priority)) # Ok
           some == \E i \in 1..Len(entries) : outside(entries[i].entry)
       IN  /\ some => ~ret.res.ok
           /\ ret.res.err = "InvalidPriority" => some

\* The children a url element holds for entry e of builder kind k when no
\* present field is dropped.
ExpectedChildren(k, e) ==
    LET page == PageOf(k, e)
        opt(field, name) == IF IsSome(field) THEN <<name>> ELSE <<>>
        each(list, name) == [i \in 1..Len(list) |-> name]
    IN  <<"loc">>
        \o opt(page.lastmod, "lastmod")
        \o opt(page.changefreq, "changefreq")
        \o opt(page.priority, "priority")
        \o (IF k \in {"Image", "Combined"} THEN each(e.images, "image:image") ELSE <<>>)
        \o (IF k \in {"Video", "Combined"} THEN each(e.videos, "video:video") ELSE <<>>)
        \o (IF k = "Combined" /\ IsSome(e.news) THEN <<"news:news">> ELSE <<>>)

\* C10: in a plain, image, video or combined document every url element
\* holds loc, then lastmod, changefreq and priority (each if and only if the
\* field is present), then the image blocks, the video blocks and the news
\* block: no present page field is dropped.
C10_ChildOrder ==
    (kind \in {"Sitemap", "Image", "Video", "Combined"} /\ ret.op = "build" /\ ret.res.ok)
    => \A i \in 1..Len(entries) :
         ChildNames(ret.res.doc.body[i].events) = ExpectedChildren(kind, entries[i].entry)

\* The per-entry checks in the stated order: page URL, lastmod, priority,
\* then the nested assets in list order.
StatedChecks(k, e) ==
    LET page == PageOf(k, e)
    IN  <<validate_url(page.loc)>>
        \o CheckOpt(page.lastmod, validate_date)
        \o (IF k = "Index" THEN <<>> ELSE CheckOpt(page.priority, validate_priority))
        \o (CASE k = "Image" -> ForEach(ImageChecks, e.images)
              [] k = "Video" -> ForEach(VideoChecks, e.videos)
              [] k = "News" -> NewsChecks(e.news)
              [] k = "Combined" ->
                   ForEach(CombinedVideoChecks, e.videos)
                   \o (IF IsSome(e.news) THEN NewsChecks(Unwrap(e.news)) ELSE <<>>)
              [] OTHER -> <<>>)

\* C11: with validation enabled build returns the error of the first
\* violated rule in the order count check, entries in insertion order (page
\* URL, lastmod, priority, nested assets), size check; so an invalid
\* priority on an entry wins over an invalid URL on a later entry.
C11_ValidationOrder ==
    (validate /\ ret.op = "build")
    => ret.res.err =
         FirstErr(<<CountCheck(kind, entries)>>
                  \o ForEach(LAMBDA e : StatedChecks(kind, e), Entries(entries))
                  \o <<validate_size(DocLen(Serialized(kind, entries)))>>)

\* The operations of the build family.
BuildOps == {"build", "build_bytes", "build_compressed_bytes", "write", "write_compressed"}

\* C12: a build-family call, succeeding or failing, leaves the entry
\* sequence, len() and the validation flag as they were; a build that
\* follows a build returns the same result; and a successful build holds one
\* url element per entry the builder holds at that moment.
C12_BuildReadOnly ==
    [][ret'.op \in BuildOps
       => /\ entries' = entries
          /\ EntriesLen(entries') = EntriesLen(entries)
          /\ validate' = validate
          /\ (ret.op = "build" /\ ret'.op = "build") => ret'.res = ret.res
          /\ (ret'.op = "build" /\ ret'.res.ok)
             => Len(ret'.res.doc.body) = Len(entries')]_vars

\* C12 happens: a write failed on its build and the builder still holds its
\* two entries.
C12_Witness ==
    /\ ret.op = "write" /\ ~ret.res.ok /\ ret.res.err = "InvalidUrl"
    /\ Len(entries) = MaxRuns

\* The arguments a call of add_url or add_urls may have appended.
Appended(k) == {<<Run(e, 1)>> : e \in Pool(k)} \cup BulkPool(k)

\* C13: every call of add_url or add_urls leaves the sequence as the old one
\* followed by its argument, duplicates kept; len() grows by the number of
\* entries appended; is_empty() holds exactly when len() is 0; and a built
\* document holds one url element per entry, in the order of the sequence.
C13_AccumulationOrder ==
    [][/\ entries' # entries
          => \E arg \in Appended(kind) :
               /\ entries' = entries \o arg
               /\ EntriesLen(entries') = EntriesLen(entries) + EntriesLen(arg)
       /\ is_empty(entries') <=> (EntriesLen(entries') = 0)
       /\ (ret'.op = "build" /\ ret'.res.ok)
          => /\ Len(ret'.res.doc.body) = Len(entries')
             /\ \A i \in 1..Len(entries') :
                  ret'.res.doc.body[i]
                    = Serialized(kind, <<entries'[i]>>).body[1]]_vars

\* Two different entries were added one after the other, and the document
\* built lists both.
C13_Witness ==
    /\ Len(entries) = 2 /\ ret.op = "build" /\ ret.res.ok
    /\ Len(ret.res.doc.body) = 2
    /\ ret.res.doc.body[1] # ret.res.doc.body[2]

\* C14: a build-family call returns either its complete output and no error,
\* or one error and no output; build_bytes succeeds exactly when build does
\* and then returns the bytes of build's text; build_compressed_bytes, write
\* and write_compressed fail with build's error whenever build fails.
C14_AllOrNothing ==
    LET xml == build(kind, entries, validate)
        whole == Serialized(kind, entries)
    IN  ret.op \in BuildOps
        => /\ \/ ret.res.ok /\ ret.res.err = Ok
              \/ ~ret.res.ok /\ ret.res.err # Ok /\ ret.res.doc = NoDoc
           /\ (ret.res.ok /\ ret.op = "build") => ret.res.doc = whole
           /\ (ret.res.ok /\ ret.op = "build_compressed_bytes")
              => ret.res.doc = Gzip(Bytes(whole))
           /\ ret.op = "build_bytes"
              => /\ ret.res.ok <=> xml.ok
                 /\ xml.ok => ret.res.doc = Bytes(xml.doc)
                 /\ ~xml.ok => ret.res.err = xml.err
           /\ (ret.op # "build" /\ ~xml.ok)
              => (~ret.res.ok /\ ret.res.err = xml.err)

\* build_bytes was refused the entries that build refuses.
C14_Witness ==
    /\ ret.op = "build_bytes" /\ ~ret.res.ok /\ ret.res.err = "InvalidUrl"
    /\ ~build(kind, entries, validate).ok
    /\ build(kind, entries, FALSE).ok

\* The root element of the document of builder kind k.
RootName(k) == IF k = "Index" THEN "sitemapindex" ELSE "urlset"

\* C15: for every builder kind, building with zero entries succeeds and gives
\* the XML declaration, the opening and the closing tag of the root element
\* (urlset, or sitemapindex for the index builder) and no child element; both
\* parsers return an empty list, without error, for that document.
C15_EmptyDocument ==
    entries = <<>>
    => /\ ret.op = "build"
          => /\ ret.res.ok
             /\ Len(ret.res.doc.head) = 2
             /\ ret.res.doc.head[1].t = "Decl"
             /\ ret.res.doc.head[2].t = "Start"
             /\ ret.res.doc.head[2].name = RootName(kind)
             /\ ret.res.doc.body = <<>>
             /\ ret.res.doc.tail = <<EndEv(RootName(kind))>>
       /\ ret.op \in {"parse_string", "parse_index_string"}
          => /\ ret.xml.body = <<>>
             /\ ret.res.ok
             /\ ret.res.entries = <<>>

\* The empty document of the index builder went through its parser.
C15_Witness ==
    /\ entries = <<>> /\ kind = "Index" /\ validate
    /\ ret.op = "parse_index_string" /\ ret.res.ok
    /\ ret.xml.head[2].name = "sitemapindex"

\* The event the parser read in the step just taken.
LastRead == scan'.input[Len(scan'.input)]

\* The name of the entry element of the documents of kind k.
ItemName(k) == IF k = "Index" THEN "sitemap" ELSE "url"

\* The parser has just returned the error e and nothing else.
FailedWith(e) ==
    /\ scan'.st.err = e
    /\ ret' = [op |-> "parse_reader", res |-> [ok |-> FALSE, err |-> e, entries |-> <<>>]]

\* C16: while parse_reader reads a plain sitemap, a changefreq text inside a
\* url element that is none of the seven values makes it return
\* InvalidChangeFreq, a priority text that is no number makes it return
\* Validation, and a syntax error makes it return Xml; what is returned is
\* the error alone, without the entries completed before.
C16_ParserFailure ==
    [][(kind = "Sitemap" /\ scan'.input # scan.input)
       => LET open == OpenNames(scan.input)
              InField(f) == Len(open) = 3 /\ open[2] = "url" /\ open[3] = f
          IN  /\ (LastRead.t = "Text" /\ InField("changefreq")
                    /\ LastRead.text \notin {Str(ChangeFreq_as_str(cf)) : cf \in ChangeFreq})
                 => FailedWith("InvalidChangeFreq")
              /\ (LastRead.t = "Text" /\ InField("priority") /\ ~ParseF32(LastRead.text.s).ok)
                 => FailedWith("Validation")
              /\ LastRead.t = "Error" => FailedWith("Xml")]_vars

\* A changefreq that is none of the seven values stopped the parser after an
\* entry had been completed.
C16_Witness ==
    /\ kind = "Sitemap" /\ ret.op = "parse_reader"
    /\ ret.res.err = "InvalidChangeFreq" /\ ret.res.entries = <<>>
    /\ Len(scan.st.entries) = 1

\* The events of evs from the i-th on, without the elements named foo and
\* the text they hold; the text on either side of a removed element is one
\* text in the document without it.  last holds the events kept so far.
RECURSIVE WithoutUnknown(_, _, _, _)
WithoutUnknown(evs, i, inside, last) ==
    IF i > Len(evs) THEN last
    ELSE LET ev == evs[i]
         IN  IF ev.t \in {"Start", "End", "Empty"} /\ ev.name = "foo"
             THEN WithoutUnknown(evs, i + 1, ev.t = "Start", last)
             ELSE IF inside /\ ev.t = "Text" THEN WithoutUnknown(evs, i + 1, inside, last)
             ELSE IF ev.t = "Text" /\ last # <<>> /\ last[Len(last)].t = "Text"
             THEN WithoutUnknown(evs, i + 1, inside,
                    [last EXCEPT ![Len(last)] =
                       TextEv(Str(last[Len(last)].text.s \o ev.text.s))])
             ELSE WithoutUnknown(evs, i + 1, inside, Append(last, ev))

\* The locals of the parser of kind k after the events evs.
ParsedBy(k, evs) ==
    IF k = "Index" THEN ParseAll(ParseIndexStep, evs) ELSE ParseAll(ParseStep, evs)

\* C17: an element of an unrecognized name inside a url (sitemap) element is
\* ignored with its text: the parser meets no error because of it, and the
\* entries completed and the entry in progress are what they are for the
\* same document without that element.
C17_UnknownIgnored ==
    LET without == ParsedBy(kind, WithoutUnknown(scan.input, 1, FALSE, <<>>))
    IN  /\ scan.st.err = without.err
        /\ scan.st.entries = without.entries
        /\ scan.st.current_url = without.current_url

\* C18: no entry is in progress before the first url (sitemap) start tag; a
\* url (sitemap) start tag opens one; each url (sitemap) closing tag appends
\* the entry in progress to the output and clears it; every step leaves the
\* output as it was or longer by entries at its end; at the end of input the
\* parser succeeds and returns the output, one entry per closed url
\* (sitemap) element, in the order the elements were closed.
C18_EntryLifecycle ==
    [][scan'.input # scan.input
       => LET st == scan.st
              after == scan'.st
              Closed(evs) == SelectSeq(evs, LAMBDA e : e.t = "End" /\ e.name = ItemName(kind))
          IN  /\ (\A i \in 1..Len(scan.input) :
                    ~(scan.input[i].t = "Start" /\ scan.input[i].name = ItemName(kind)))
                 => st.current_url = None
              /\ (LastRead.t = "Start" /\ LastRead.name = ItemName(kind))
                 => IsSome(after.current_url)
              /\ (LastRead.t = "End" /\ LastRead.name = ItemName(kind))
                 => /\ IsSome(st.current_url)
                    /\ after.entries = Append(st.entries, Unwrap(st.current_url))
                    /\ after.current_url = None
              /\ Len(after.entries) >= Len(st.entries)
              /\ SubSeq(after.entries, 1, Len(st.entries)) = st.entries
              /\ Len(st.entries) = Len(Closed(scan.input))
              /\ LastRead.t = "Eof"
                 => /\ after.done
                    /\ ret' = [op |-> "parse_reader",
                               res |-> [ok |-> TRUE, err |-> Ok, entries |-> st.entries]]]_vars

\* Two url elements were closed and the input ended: the parser returned two
\* different entries.
C18_Witness ==
    /\ scan.st.done /\ ret.op = "parse_reader" /\ ret.res.ok
    /\ Len(ret.res.entries) = 2
    /\ ret.res.entries[1] # ret.res.entries[2]

\* C19: the plain builder, validating, checks the loc of its first entry
\* before anything else of the entries: a loc longer than 2048 makes the
\* build fail with UrlTooLong, parseable or not; a loc of at most 2048 that
\* is no absolute URL makes it fail with InvalidUrl; and a batch of one entry
\* that holds a loc only passes exactly when the loc is an absolute URL of at
\* most 2048.
C19_LengthBeforeSyntax ==
    (kind = "Sitemap" /\ validate /\ ret.op = "build" /\ entries # <<>>)
    => LET url == entries[1].entry.loc
       IN  /\ StrLen(url) > 2048 => ret.res.err = "UrlTooLong"
           /\ (StrLen(url) <= 2048 /\ ~UrlParse(url)) => ret.res.err = "InvalidUrl"
           /\ Len(entries) = 1
              => (ret.res.ok <=> (StrLen(url) <= 2048 /\ UrlParse(url)))

\* A loc of 2049 characters that is no URL either was refused as too long.
C19_Witness ==
    /\ kind = "Sitemap" /\ validate /\ ret.op = "build"
    /\ Len(entries) = 1 /\ entries[1].entry.loc = Txt.LongNotUrl
    /\ StrLen(Txt.LongNotUrl) = 2049 /\ ~UrlParse(Txt.LongNotUrl)
    /\ ret.res.err = "UrlTooLong"

\* The URLs of the images and the videos of the entry e of builder kind k.
AssetUrls(k, e) ==
    LET OfVideo(v) == {v.thumbnail_loc}
                      \cup {Unwrap(f) : f \in {g \in {v.content_loc, v.player_loc} : IsSome(g)}}
        images == IF k \in {"Image", "Combined"} THEN e.images ELSE <<>>
        videos == IF k \in {"Video", "Combined"} THEN e.videos ELSE <<>>
    IN  {images[i].loc : i \in 1..Len(images)}
        \cup UNION {OfVideo(videos[i]) : i \in 1..Len(videos)}

\* C20: with validation on, the image, the video and the combined builder
\* refuse the batch when the loc of an image, or the thumbnail_loc,
\* content_loc or player_loc of a video, is no valid URL or is longer than
\* 2048.
C20_AssetUrlsValidated ==
    (validate /\ ret.op = "build" /\ kind \in {"Image", "Video", "Combined"})
    => ((\E i \in 1..Len(entries) :
           \E url \in AssetUrls(kind, entries[i].entry) : validate_url(url) # Ok)
        => ~ret.res.ok)

\* The local name of an element of the documents read: the name without its
\* namespace prefix.
LocalName(name) == IF name = "sm:loc" THEN "loc" ELSE name

\* C21: a text read inside an element of a url (sitemap) element is assigned
\* to the field of the entry in progress that the local name of that element
\* names: loc, lastmod, changefreq or priority.
C21_LocalNameMatching ==
    [][(/\ scan'.input # scan.input
        /\ LastRead.t = "Text"
        /\ Len(OpenNames(scan.input)) = 3
        /\ OpenNames(scan.input)[2] = ItemName(kind)
        /\ scan'.st.err = Ok)
       => LET field == LocalName(OpenNames(scan.input)[3])
              entry == Unwrap(scan'.st.current_url)
              text == Unescape(LastRead.text)
          IN  /\ field = "loc" => entry.loc = text
              /\ field = "lastmod" => entry.lastmod = Some(text)
              /\ (field = "changefreq" /\ kind = "Sitemap")
                 => \E cf \in ChangeFreq :
                      Str(ChangeFreq_as_str(cf)) = text /\ entry.changefreq = Some(cf)
              /\ (field = "priority" /\ kind = "Sitemap")
                 => entry.priority = Some(ParseF32(text.s).v)]_vars

\* The elements named name among the events evs, each with its events.
ElementsNamed(evs, name) ==
    LET Idx(t) == SelectSeq([i \in 1..Len(evs) |-> i],
                            LAMBDA i : evs[i].t = t /\ evs[i].name = name)
    IN  [j \in 1..Len(Idx("Start")) |-> SubSeq(evs, Idx("Start")[j], Idx("End")[j])]

\* The place an image names: the city, else the state, else the country.
GeoChosen(image) ==
    IF ~IsSome(image.geo_location) THEN None
    ELSE LET geo == Unwrap(image.geo_location)
         IN  IF IsSome(geo.city) THEN geo.city
             ELSE IF IsSome(geo.state) THEN geo.state
             ELSE geo.country

\* C22: the element of an image holds one image:geo_location, between
\* image:caption and image:title, when the image has a geo_location with a
\* city, a state or a country, and none otherwise; its text is that of the
\* city if set, else of the state if set, else of the country.
C22_GeoLocationSelection ==
    ret.op = "write_image_entry" =>
        LET image == ret.arg
            geo == ElementsNamed(ret.res, "image:geo_location")
            chosen == GeoChosen(image)
        IN  /\ ChildNames(ret.res)
                 = <<"image:loc">>
                   \o (IF IsSome(image.caption) THEN <<"image:caption">> ELSE <<>>)
                   \o (IF IsSome(chosen) THEN <<"image:geo_location">> ELSE <<>>)
                   \o (IF IsSome(image.title) THEN <<"image:title">> ELSE <<>>)
                   \o (IF IsSome(image.license) THEN <<"image:license">> ELSE <<>>)
            /\ IsSome(chosen)
               => geo = <<write_text_element("image:geo_location", Unwrap(chosen))>>

\* An image with a caption, a title, a state and a country and no city was
\* written: its one image:geo_location holds the state.
C22_Witness ==
    /\ ret.op = "write_image_entry"
    /\ IsSome(ret.arg.caption) /\ IsSome(ret.arg.title)
    /\ ret.arg.geo_location = Some(GeoLocation(None, Some(Txt.LangEn), Some(Txt.UrlB)))
    /\ Len(ElementsNamed(ret.res, "image:geo_location")) = 1

\* C23: in the documents of every kind the text of loc, and in the video
\* documents the text of video:uploader and the value of its info attribute,
\* hold the field string with each of & < > " ' escaped once: unescaping
\* what was written gives the field string back.
C23_UniformEscaping ==
    (ret.op = "build" /\ ret.res.ok)
    => \A i \in 1..Len(entries) :
         /\ UnescapeChars(LocText(ret.res.doc, i).s) = PageOf(kind, entries[i].entry).loc.s
         /\ kind = "Video"
            => LET with == SelectSeq(entries[i].entry.videos, LAMBDA v : IsSome(v.uploader))
                   elems == ElementsNamed(ret.res.doc.body[i].events, "video:uploader")
               IN  /\ Len(elems) = Len(with)
                   /\ \A j \in 1..Len(with) :
                        LET uploader == Unwrap(with[j].uploader)
                        IN  /\ UnescapeChars(elems[j][2].text.s) = uploader.name.s
                            /\ IsSome(uploader.info_url)
                               => UnescapeChars(elems[j][1].attrs[1].v.s)
                                    = Unwrap(uploader.info_url).s

\* The number of commas of a string; the pad holds none.
Commas(x) == Cardinality({i \in 1..Len(x.s) : x.s[i] = ","})

\* C24: validate_stock_tickers fails, with Validation, exactly when the
\* string holds five commas or more, that is more than five tokens, the empty
\* and the blank tokens counted; with four commas or fewer, the empty string
\* included, it passes.
C24_StockTickers ==
    ret.op = "validate_stock_tickers" =>
        /\ Commas(ret.arg) >= 5 => ret.res = "Validation"
        /\ Commas(ret.arg) <= 4 => ret.res = Ok

\* Six tokens, all of them empty, are refused.
C24_Witness ==
    /\ ret.op = "validate_stock_tickers"
    /\ ret.arg = Str(<<",", ",", ",", ",", ",">>)
    /\ ret.res = "Validation"

\* C25: validate_language_code passes exactly the strings of two or three
\* lowercase ASCII letters and the two strings zh-cn and zh-tw; every other
\* string fails with Validation.
C25_LanguageCode ==
    ret.op = "validate_language_code" =>
        LET code == ret.arg
            letters == /\ StrLen(code) \in {2, 3}
                       /\ \A i \in 1..Len(code.s) : code.s[i] \in Letters
                       /\ code.pad > 0 => PadChar \in Letters
            chinese == code \in {Str(<<"z", "h", "-", "c", "n">>), Str(<<"z", "h", "-", "t", "w">>)}
        IN  ret.res = IF letters \/ chinese THEN Ok ELSE "Validation"

\* zh-tw passes although it is neither two nor three letters.
C25_Witness ==
    /\ ret.op = "validate_language_code"
    /\ ret.arg = Str(<<"z", "h", "-", "t", "w">>)
    /\ ret.res = Ok

\* The characters of a string up to its next '-', and what follows that '-'.
UpToDash(chars) ==
    IF \E i \in 1..Len(chars) : chars[i] = "-"
    THEN SubSeq(chars, 1, (CHOOSE i \in 1..Len(chars) :
                              chars[i] = "-" /\ \A j \in 1..(i - 1) : chars[j] # "-") - 1)
    ELSE chars

AfterDash(chars) == SubSeq(chars, Len(UpToDash(chars)) + 2, Len(chars))

\* C26: validate_date passes exactly the strings of ten characters or more
\* that split on '-' into at least three parts, the first of four digits, the
\* second of two digits, the third of two characters or more beginning with
\* two digits; every other string fails with InvalidDate.  No calendar check
\* is made and whatever follows the day is accepted.
C26_StructuralDate ==
    (ret.op = "validate_date" /\ ret.arg.pad = 0) =>
        LET date == ret.arg.s
            year == UpToDash(date)
            month == UpToDash(AfterDash(date))
            third == UpToDash(AfterDash(AfterDash(date)))
            numeric(chars) == \A i \in 1..Len(chars) : chars[i] \in Digits
            passes == /\ Len(date) >= 10
                      /\ Commas([s |-> [i \in 1..Len(date) |-> IF date[i] = "-" THEN "," ELSE "x"]]) >= 2
                      /\ Len(year) = 4 /\ numeric(year)
                      /\ Len(month) = 2 /\ numeric(month)
                      /\ Len(third) >= 2 /\ numeric(SubSeq(third, 1, 2))
        IN  ret.res = IF passes THEN Ok ELSE "InvalidDate"

\* A month 13 and a datetime with a timezone offset pass.
C26_Witness ==
    /\ ret.op = "validate_date"
    /\ ret.arg = Str(<<"2", "0", "2", "5", "-", "1", "3", "-", "0", "1", "T", "1", "0", ":", "0", "0",
                       "-", "0", "7", ":", "0", "0">>)
    /\ ret.res = Ok

\* C27: write and write_compressed build the whole document before they open
\* the file: a call whose build fails returns build's error and leaves the
\* path as it was, neither created nor truncated, whatever the file system
\* would have answered.
C27_NoFileEffectOnFailedBuild ==
    [][(ret'.op \in {"write", "write_compressed"} /\ ~build(kind, entries, validate).ok)
       => /\ file' = file
          /\ ~ret'.res.ok /\ ret'.res.err = build(kind, entries, validate).err]_vars

\* A write was refused for an invalid URL, and the document an earlier write
\* left in the file is still there whole.
C27_Witness ==
    /\ ret.op \in {"write", "write_compressed"}
    /\ ~ret.res.ok /\ ret.res.err = "InvalidUrl"
    /\ IsSome(file) /\ Unwrap(file) # Partial

\* C28: a text read directly inside a url (sitemap) element, outside every
\* field element, after a closed field element or after an empty element,
\* changes no field of the entry in progress.
C28_TextOutsideFields ==
    [][(/\ scan'.input # scan.input
        /\ LastRead.t = "Text"
        /\ Len(OpenNames(scan.input)) = 2
        /\ OpenNames(scan.input)[2] = ItemName(kind))
       => scan'.st.current_url = scan.st.current_url]_vars

\* The batch es of the combined builder as the batch of the dedicated builder
\* of kind k: the same pages with the same images, videos or news block.
Dedicated(k, es) ==
    [i \in 1..Len(es) |->
        LET e == es[i].entry
        IN  Run(CASE k = "Image" -> UrlWithImages(e.url, e.images)
                  [] k = "Video" -> UrlWithVideos(e.url, e.videos)
                  [] k = "News" -> UrlWithNews(e.url, Unwrap(e.news)),
                es[i].reps)]

\* The dedicated kinds whose builder could have been given the batch es.
DedicatedKinds(es) ==
    LET all(P(_)) == \A i \in 1..Len(es) : P(es[i].entry)
        some(P(_)) == \E i \in 1..Len(es) : P(es[i].entry)
        images(e) == e.images # <<>>
        videos(e) == e.videos # <<>>
        news(e) == IsSome(e.news)
        none(e) == FALSE
    IN  {k \in {"Image", "Video", "News"} :
           CASE k = "Image" -> some(images) /\ ~some(videos) /\ ~some(news)
             [] k = "Video" -> some(videos) /\ ~some(images) /\ ~some(news)
             [] k = "News" -> es # <<>> /\ all(news) /\ ~some(images) /\ ~some(videos)}

\* C29: for a batch that carries only images, only videos, or one news block
\* per entry, the combined builder, validating, accepts the batch exactly when
\* the dedicated builder accepts the same pages and assets, and when both
\* accept the two documents are the same.
C29_CombinedAgreesWithDedicated ==
    (kind = "Combined" /\ validate /\ ret.op = "build")
    => \A k \in DedicatedKinds(entries) :
         LET dedicated == build(k, Dedicated(k, entries), TRUE)
         IN  /\ ret.res.ok <=> dedicated.ok
             /\ (ret.res.ok /\ dedicated.ok) => ret.res.doc = dedicated.doc

\* The name of the element opened last among the events evs, "" if none.
LastStarted(evs) ==
    LET starts == SelectSeq(evs, LAMBDA e : e.t = "Start")
    IN  IF starts = <<>> THEN "" ELSE starts[Len(starts)].name

\* C30: the parser checks nothing of the protocol.  It fails only on a
\* syntax error and, in a plain sitemap, on a changefreq text that is none of
\* the values or a priority text that is no number: never for what loc or
\* lastmod hold, nor for a priority outside [0.0, 1.0].  When it reaches the
\* end it succeeds with one entry per url (sitemap) element closed by its end
\* tag, and the entry of an element without a loc child has the empty loc.
C30_NoProtocolValidation ==
    LET evs == scan.input
        last == evs[Len(evs)]
        before == SubSeq(evs, 1, Len(evs) - 1)
        number == Str(FormatF32(150))
        value == Str(ChangeFreq_as_str("Daily"))
    IN  /\ scan.st.err # Ok
           => \/ last.t = "Error"
              \/ /\ kind = "Sitemap" /\ last.t = "Text"
                 /\ \/ LastStarted(before) = "changefreq" /\ last.text # value
                    \/ LastStarted(before) = "priority" /\ last.text # number
        /\ scan.st.done
           => LET items == ElementsNamed(evs, ItemName(kind))
              IN  /\ ret.op = "parse_reader" /\ ret.res.ok
                  /\ Len(ret.res.entries) = Len(items)
                  /\ \A j \in 1..Len(items) :
                       (\A i \in 1..Len(items[j]) :
                          ~(items[j][i].t = "Start" /\ items[j][i].name = "loc"))
                       => ret.res.entries[j].loc = Str(<<>>)

\* A document whose one url has a priority of 1.5 and no loc was parsed
\* without error: the entry has the empty loc and the priority 1.5.
C30_Witness ==
    /\ kind = "Sitemap" /\ scan.st.done /\ ret.op = "parse_reader" /\ ret.res.ok
    /\ ret.res.entries = <<UrlEntry(Str(<<>>), None, None, Some(150))>>

====
